---- MODULE Spec2Model ----
(***************************************************************************)
(* Admission control and metering of the Claude proxy service:             *)
(* proxyToClaudeAPI (src/src/proxy.ts), checkQuotaLimit and                *)
(* getRollingWindowUsage (quota module, src/src/limits.ts:91-322),         *)
(* the credit weights (src/src/limits.ts:1-89), updateKeyUsage             *)
(* (src/src/usage.ts), calculateCost (src/src/pricing.ts) and the OAuth    *)
(* token store (src/src/oauth.ts).                                         *)
(*                                                                         *)
(* Numbers: credits, tokens and milliseconds are integers.  JavaScript     *)
(* doubles are modelled exactly (as rationals): every value here is far    *)
(* below 2^53.  Dollar costs are kept in units of 10^-8 dollars, credit    *)
(* weights in quarters.                                                    *)
(***************************************************************************)
EXTENDS Integers, Sequences, FiniteSets, TLC

\* ------------------------------------------------------------------ bounds
MaxRequests == 2
MaxNow == 86400000
MaxIssued == 3
MaxConnects == 1
\* ledger runs: rows in the history table, store operations, milliseconds passed
MaxRows == 2
MaxOps == 3
MaxTicks == 1
\* assignment runs: assignKey and acceptInvitation calls
MaxAssignOps == 3
\* assignment runs: reads of the usage and quota routes
MaxReads == 1

\* --------------------------------------------------------------- constants
HourMs == 3600000
CONTEXT_THRESHOLD == 200000
DefaultQuotaPercentage == 100

Users == {"u1"}
Keys == {"k1", "k2"}
Requests == 1..MaxRequests
PlanTypes == {"free", "pro", "max-5x", "max-20x"}

\* SQL NULL in an integer column
NULL == -1

\* ------------------------------------------------------------ credit model
PLAN_LIMITS ==
  [p \in PlanTypes |->
     CASE p = "free"    -> [creditsPerWindow |-> 10000,     windowHours |-> 24]
       [] p = "pro"     -> [creditsPerWindow |-> 10000000,  windowHours |-> 5]
       [] p = "max-5x"  -> [creditsPerWindow |-> 50000000,  windowHours |-> 5]
       [] p = "max-20x" -> [creditsPerWindow |-> 200000000, windowHours |-> 5]]

\* weights in quarters of a credit per token: opus 5.0, sonnet 1.0, haiku 0.25
MODEL_WEIGHTS == [opus |-> 20, sonnet |-> 4, haiku |-> 1]

\* model identifiers are character sequences
S_opus == <<"o", "p", "u", "s">>
S_sonnet == <<"s", "o", "n", "n", "e", "t">>
S_haiku == <<"h", "a", "i", "k", "u">>
M_Opus == <<"c", "-", "O", "p", "u", "s", "-", "4">>
M_Sonnet == <<"c", "-", "s", "o", "n", "n", "e", "t">>
M_Haiku == <<"H", "A", "I", "K", "U">>
M_Other == <<"g", "p", "t">>
DefaultModel == <<"c", "l", "a", "u", "d", "e", "-", "s", "o", "n", "n", "e", "t", "-", "4">>
NoModel == <<>>

LowerChar(c) ==
  CASE c = "O" -> "o" [] c = "P" -> "p" [] c = "U" -> "u" [] c = "S" -> "s"
    [] c = "H" -> "h" [] c = "A" -> "a" [] c = "I" -> "i" [] c = "K" -> "k"
    [] c = "N" -> "n" [] c = "E" -> "e" [] c = "T" -> "t"
    [] OTHER -> c

toLowerCase(s) == [i \in 1..Len(s) |-> LowerChar(s[i])]

includes(s, sub) ==
  \E i \in 0..(Len(s) - Len(sub)) :
     \A j \in 1..Len(sub) : s[i + j] = sub[j]

getModelWeight(model) ==
  LET lowerModel == toLowerCase(model) IN
  IF includes(lowerModel, S_opus) THEN MODEL_WEIGHTS.opus
  ELSE IF includes(lowerModel, S_sonnet) THEN MODEL_WEIGHTS.sonnet
  ELSE IF includes(lowerModel, S_haiku) THEN MODEL_WEIGHTS.haiku
  ELSE MODEL_WEIGHTS.sonnet

\* Math.ceil(tokens * weight), weight in quarters
calculateCreditsUsed(model, tokens) ==
  (tokens * getModelWeight(model) + 3) \div 4

detectModelType(model) ==
  IF includes(toLowerCase(model), S_opus) THEN "opus" ELSE "sonnet"

\* rates per million tokens, times 100
OPUS_PRICING == [input |-> 1500, output |-> 7500, cacheWrite |-> 1875, cacheRead |-> 150]
SONNET_PRICING_SMALL == [input |-> 300, output |-> 1500, cacheWrite |-> 375, cacheRead |-> 30]
SONNET_PRICING_LARGE == [input |-> 600, output |-> 2250, cacheWrite |-> 750, cacheRead |-> 60]

\* dollars * 10^8
calculateCost(model, u) ==
  LET pricing ==
        IF detectModelType(model) = "opus" THEN OPUS_PRICING
        ELSE IF u.input_tokens + u.cache_creation_input_tokens
                  + u.cache_read_input_tokens <= CONTEXT_THRESHOLD
             THEN SONNET_PRICING_SMALL
             ELSE SONNET_PRICING_LARGE
  IN u.input_tokens * pricing.input + u.output_tokens * pricing.output
     + u.cache_creation_input_tokens * pricing.cacheWrite
     + u.cache_read_input_tokens * pricing.cacheRead


\* ------------------------------------------------------------------- state
VARIABLES
  users,                  \* users table: plan_type per user
  api_keys,               \* api_keys table: owner, is_active, quota_percentage
  oauth_tokens,           \* oauth_tokens table: one row per user, or none
  api_key_usage,          \* api_key_usage table: lifetime aggregate per key
  api_key_usage_history,  \* api_key_usage_history table: sequence of rows
  now,                    \* Date.now(), milliseconds
  issued,                 \* number of token pairs the upstream issuer has issued
  rq,                     \* the proxied requests: position and locals of each
  charged,                \* history: credits of the completed updateKeyUsage calls, per key
  peak,                   \* history: most requests of a key admitted and in flight together
  reported,               \* history: field-wise sum of the usage of the successful
                          \* updateKeyUsage calls on a key's aggregate row, and their number
  last                    \* history: the last direct store operation and its outcome

vars == <<users, api_keys, oauth_tokens, api_key_usage, api_key_usage_history,
          now, issued, rq, charged, peak, reported, last>>

\* the secret of key k is k itself; bcrypt.compare(key, hash) is equality
Secrets == Keys
Owner == [k \in Keys |-> "u1"]

NoTokenRow == [exists |-> FALSE, access_token |-> 0, refresh_token |-> 0, expires_at |-> 0]
ZeroUsage ==
  [exists |-> TRUE, input_tokens |-> 0, output_tokens |-> 0,
   cache_creation_tokens |-> 0, cache_read_tokens |-> 0, total_tokens |-> 0,
   total_cost |-> 0, last_request_at |-> NULL, request_count |-> 0]

\* nothing reported yet; no store operation yet
NoCalls ==
  [input_tokens |-> 0, output_tokens |-> 0, cache_creation_tokens |-> 0,
   cache_read_tokens |-> 0, calls |-> 0]
NoOperation == [op |-> "none", key |-> "", ok |-> TRUE, arg |-> 0, rowCount |-> 0, n |-> 0]

\* no row for the key
NoUsageRow == [ZeroUsage EXCEPT !.exists = FALSE]
NoKeyRow ==
  [exists |-> FALSE, user_id |-> "", is_active |-> FALSE, quota_percentage |-> NULL,
   assigned_to_email |-> "", assigned_to_user_id |-> "",
   assignment_status |-> "unassigned", invitation_token |-> NULL]

\* rows the tests insert directly into api_key_usage_history
HistoryRow(k, ts, model, credits) ==
  [key_id |-> k, timestamp |-> ts, model |-> model, input_tokens |-> 0,
   output_tokens |-> 0, cache_creation_tokens |-> 0, cache_read_tokens |-> 0,
   total_tokens |-> 0, cost |-> 0, credits_used |-> credits]

\* ------------------------------------------------------------ quota module
RECURSIVE SumCredits(_)
SumCredits(rows) ==
  IF rows = <<>> THEN 0 ELSE Head(rows).credits_used + SumCredits(Tail(rows))

RECURSIVE MinTimestamp(_)
MinTimestamp(rows) ==
  IF Len(rows) = 1 THEN Head(rows).timestamp
  ELSE LET m == MinTimestamp(Tail(rows)) IN
       IF Head(rows).timestamp < m THEN Head(rows).timestamp ELSE m

\* variant: the product is rounded up
calculateEffectiveLimit_ceil(planLimit, quotaPercentage) ==
  (planLimit * quotaPercentage + 99) \div 100

calculateEffectiveLimit(planLimit, quotaPercentage) ==
  (planLimit * quotaPercentage) \div 100

\* variant: the reset is always a full window after the evaluation
getNextResetTime_fromNow(oldestTimestamp, windowHours, t) == t + windowHours * HourMs

\* timestamp NULL when oldestTimestamp is null
getNextResetTime(oldestTimestamp, windowHours, t) ==
  IF oldestTimestamp = NULL THEN t + windowHours * HourMs
  ELSE oldestTimestamp + windowHours * HourMs

Max0(x) == IF x > 0 THEN x ELSE 0

\* variant: a row exactly windowHours old is left out
WindowRows_exclusive(hist, keyId, windowStartTime) ==
  SelectSeq(hist, LAMBDA row : row.key_id = keyId /\ row.timestamp > windowStartTime)

\* variant: the rows of every key are counted
WindowRows_allKeys(hist, keyId, windowStartTime) ==
  SelectSeq(hist, LAMBDA row : row.timestamp >= windowStartTime)

\* WHERE key_id = $1 AND timestamp >= $2
WindowRows(hist, keyId, windowStartTime) ==
  SelectSeq(hist, LAMBDA row : row.key_id = keyId /\ row.timestamp >= windowStartTime)

getRollingWindowUsage(hist, keyId, windowHours, t) ==
  LET windowStartTime == t - windowHours * HourMs
      rows == WindowRows(hist, keyId, windowStartTime)
      oldestTimestamp == IF rows = <<>> THEN NULL ELSE MinTimestamp(rows)
      nextResetTime == getNextResetTime(oldestTimestamp, windowHours, t)
  IN [currentCredits |-> SumCredits(rows),
      currentRequests |-> Len(rows),
      oldestRequestTimestamp |-> oldestTimestamp,
      windowStartTime |-> windowStartTime,
      windowEndTime |-> t,
      nextResetAt |-> nextResetTime,
      timeUntilResetMs |-> Max0(nextResetTime - t)]

\* variant: > in place of >=, usage exactly at the limit still passes
isOverLimit_strict(credits, limit) ==
  IF limit = 0 THEN credits > 0 ELSE credits * 100 > 100 * limit

\* (credits / limit) * 100 >= 100; limit 0 gives NaN (0/0, never >=) or Infinity
isOverLimit(credits, limit) ==
  IF limit = 0 THEN credits > 0 ELSE credits * 100 >= 100 * limit

\* variant: Math.floor in place of Math.round
roundedCreditPercentage_floor(credits, limit) ==
  IF limit = 0 THEN NULL ELSE (100 * credits) \div limit

\* Math.round((credits / limit) * 100): nearest integer, halves up
roundedCreditPercentage(credits, limit) ==
  IF limit = 0 THEN NULL ELSE (200 * credits + limit) \div (2 * limit)

checkQuotaLimit(keys, hist, keyId, planType, t) ==
  LET limits == PLAN_LIMITS[planType]
      quotaPercentage ==
        IF keys[keyId].quota_percentage = NULL THEN DefaultQuotaPercentage
        ELSE keys[keyId].quota_percentage
      effectiveCreditsLimit ==
        calculateEffectiveLimit(limits.creditsPerWindow, quotaPercentage)
      usage == getRollingWindowUsage(hist, keyId, limits.windowHours, t)
      over == isOverLimit(usage.currentCredits, effectiveCreditsLimit)
  IN [allowed |-> ~over,
      usage |-> usage,
      percentages |->
        [creditPercentage |->
           roundedCreditPercentage(usage.currentCredits, effectiveCreditsLimit),
         isOverLimit |-> over],
      resetTime |-> getNextResetTime(usage.oldestRequestTimestamp, limits.windowHours, t)]


\* ------------------------------------------------------------ usage module
UsageUpdate(model, u) ==
  [model |-> model,
   input_tokens |-> u.input_tokens,
   output_tokens |-> u.output_tokens,
   cache_creation_input_tokens |-> u.cache_creation_input_tokens,
   cache_read_input_tokens |-> u.cache_read_input_tokens]

\* the history of calls after updateKeyUsage(keyId, usage): a call counts when
\* its UPDATE succeeds on the key's aggregate row
Report(rep, tbl, keyId, usage, dbOk) ==
  IF dbOk /\ tbl[keyId].exists
  THEN [rep EXCEPT ![keyId] =
          [input_tokens |-> @.input_tokens + usage.input_tokens,
           output_tokens |-> @.output_tokens + usage.output_tokens,
           cache_creation_tokens |-> @.cache_creation_tokens
                                       + usage.cache_creation_input_tokens,
           cache_read_tokens |-> @.cache_read_tokens + usage.cache_read_input_tokens,
           calls |-> @.calls + 1]]
  ELSE rep

\* variant: the counters are written although the call then fails
updateKeyUsage_partial(tbl, keyId, usage, t, dbOk) ==
  [tbl EXCEPT ![keyId].input_tokens = @ + usage.input_tokens,
              ![keyId].request_count = @ + 1]

\* variant: the counters are set to the usage of the call, not added to
updateKeyUsage_overwrites(tbl, keyId, usage, t, dbOk) ==
  IF dbOk /\ tbl[keyId].exists
  THEN [tbl EXCEPT ![keyId].input_tokens = usage.input_tokens,
                   ![keyId].output_tokens = usage.output_tokens,
                   ![keyId].cache_creation_tokens = usage.cache_creation_input_tokens,
                   ![keyId].cache_read_tokens = usage.cache_read_input_tokens,
                   ![keyId].total_tokens =
                      usage.input_tokens + usage.output_tokens
                        + usage.cache_creation_input_tokens + usage.cache_read_input_tokens,
                   ![keyId].request_count = @ + 1]
  ELSE tbl

\* the api_key_usage table after updateKeyUsage(keyId, usage); dbOk = FALSE is
\* the UPDATE statement failing (pool.query rejects, the function rethrows)
updateKeyUsage(tbl, keyId, usage, t, dbOk) ==
  LET cacheCreation == usage.cache_creation_input_tokens
      cacheRead == usage.cache_read_input_tokens
      totalTokens == usage.input_tokens + usage.output_tokens + cacheCreation + cacheRead
      totalCost == calculateCost(usage.model, usage)
      row == tbl[keyId]
  IN IF dbOk /\ row.exists
     THEN [tbl EXCEPT ![keyId] =
             [exists |-> TRUE,
              input_tokens |-> row.input_tokens + usage.input_tokens,
              output_tokens |-> row.output_tokens + usage.output_tokens,
              cache_creation_tokens |-> row.cache_creation_tokens + cacheCreation,
              cache_read_tokens |-> row.cache_read_tokens + cacheRead,
              total_tokens |-> row.total_tokens + totalTokens,
              total_cost |-> row.total_cost + totalCost,
              last_request_at |-> t \div 1000,
              request_count |-> row.request_count + 1]]
     ELSE tbl

\* the api_key_usage_history table after updateKeyUsage: the function issues
\* no statement against it
updateKeyUsageHistory(hist, keyId, usage, t, dbOk) == hist

\* ------------------------------------------------------------ oauth module
\* result.rows[0]: the row, undefined when there is none; null when the query throws
getOAuthTokens(tbl, userId, dbOk) ==
  IF ~dbOk THEN [kind |-> "null", row |-> NoTokenRow]
  ELSE IF tbl[userId].exists THEN [kind |-> "row", row |-> tbl[userId]]
  ELSE [kind |-> "undefined", row |-> NoTokenRow]

\* tokens !== null
hasOAuthConnection(tbl, userId, dbOk) ==
  getOAuthTokens(tbl, userId, dbOk).kind # "null"

\* variant: the upsert leaves expires_at as it was
saveOAuthTokens_keepsExpiry(tbl, userId, tokens) ==
  [tbl EXCEPT ![userId] =
     [exists |-> TRUE, access_token |-> tokens.access_token,
      refresh_token |-> tokens.refresh_token, expires_at |-> tbl[userId].expires_at]]

\* variant: the upsert leaves refresh_token as it was
saveOAuthTokens_keepsRefreshToken(tbl, userId, tokens) ==
  [tbl EXCEPT ![userId] =
     [exists |-> TRUE, access_token |-> tokens.access_token,
      refresh_token |-> tbl[userId].refresh_token, expires_at |-> tokens.expires_at]]

\* INSERT ... ON CONFLICT (user_id) DO UPDATE
saveOAuthTokens(tbl, userId, tokens) ==
  [tbl EXCEPT ![userId] =
     [exists |-> TRUE, access_token |-> tokens.access_token,
      refresh_token |-> tokens.refresh_token, expires_at |-> tokens.expires_at]]

\* DELETE FROM oauth_tokens WHERE user_id = $1
disconnectOAuth(tbl, userId) == [tbl EXCEPT ![userId] = NoTokenRow]

\* ------------------------------------------------------------- keys module
\* variant: the scan is not restricted to is_active = true
validateApiKey_ignoresActive(keys, key, dbOk) ==
  IF dbOk /\ key \in Keys /\ keys[key].exists
  THEN [valid |-> TRUE, userId |-> keys[key].user_id, keyId |-> key]
  ELSE [valid |-> FALSE, userId |-> "", keyId |-> ""]

\* first active key whose hash matches; "" when none or when the query throws
validateApiKey(keys, key, dbOk) ==
  IF dbOk /\ key \in Keys /\ keys[key].exists /\ keys[key].is_active
  THEN [valid |-> TRUE, userId |-> keys[key].user_id, keyId |-> key]
  ELSE [valid |-> FALSE, userId |-> "", keyId |-> ""]


\* --------------------------------------------------------- request inputs
\* Authorization header: "none" is missing or not "Bearer ..."; otherwise the
\* secret presented
HeaderChoices == {"none", "bad"} \cup Secrets

\* request body as read at step 6: content type, JSON validity, body.model
BodyChoices ==
  {[kind |-> "json", model |-> m] : m \in {M_Opus, M_Haiku, NoModel}}
  \cup {[kind |-> k, model |-> NoModel] : k \in {"badContentType", "badJson", "notObject"}}

NoTokens ==
  [input_tokens |-> 0, output_tokens |-> 0,
   cache_creation_input_tokens |-> 0, cache_read_input_tokens |-> 0]

\* upstream answers: status ok or not, with or without usage totals
UsageChoices ==
  {[input_tokens |-> 60, output_tokens |-> 40,
    cache_creation_input_tokens |-> 1, cache_read_input_tokens |-> 0]}

ResponseChoices ==
  {[ok |-> TRUE, status |-> 200, hasUsage |-> TRUE, usage |-> u] : u \in UsageChoices}
  \cup {[ok |-> TRUE, status |-> 200, hasUsage |-> FALSE, usage |-> NoTokens],
        [ok |-> FALSE, status |-> 500, hasUsage |-> FALSE, usage |-> NoTokens]}

NoResponse == [ok |-> FALSE, status |-> 0, hasUsage |-> FALSE, usage |-> NoTokens]

\* lifetime of an issued access token, ms
ExpiresInMs == HourMs

TickSteps == {24 * HourMs}

\* what is in the tables before the service starts: quota_percentage of k1 and
\* the credits_used of the one row of k1 in api_key_usage_history (0: no row)
Scenarios ==
  {[quota_percentage |-> 1, credits_used |-> 0],
   [quota_percentage |-> 1, credits_used |-> 74],
   [quota_percentage |-> 100, credits_used |-> 9999],
   [quota_percentage |-> NULL, credits_used |-> 9899],
   [quota_percentage |-> NULL, credits_used |-> 10000],
   [quota_percentage |-> 1, credits_used |-> 150]}

\* -------------------------------------------------------- request records
NoQuotaCheck ==
  [allowed |-> FALSE,
   usage |-> [currentCredits |-> 0, currentRequests |-> 0,
              oldestRequestTimestamp |-> NULL, windowStartTime |-> 0,
              windowEndTime |-> 0, nextResetAt |-> 0, timeUntilResetMs |-> 0],
   percentages |-> [creditPercentage |-> 0, isOverLimit |-> FALSE],
   resetTime |-> 0]

NoHeaders ==
  [present |-> FALSE, limit |-> 0, remaining |-> 0, reset |-> 0,
   percentage |-> 0, retryAfter |-> NULL]

NoReply == [status |-> 0, type |-> "", names |-> "", headers |-> NoHeaders]

Reply(status, type, names, headers) ==
  [status |-> status, type |-> type, names |-> names, headers |-> headers]

NoRefresh == [access_token |-> 0, refresh_token |-> 0, expires_at |-> 0]

IdleRequest ==
  [pc |-> "idle", keyId |-> "", userId |-> "", tokens |-> "unread",
   planType |-> "", checked |-> FALSE, quotaCheck |-> NoQuotaCheck,
   accessToken |-> 0, refreshed |-> NoRefresh, model |-> NoModel,
   claudeResponse |-> NoResponse, fetched |-> FALSE, recorded |-> "none",
   reply |-> NoReply, bodyKind |-> "unread", revokedKey |-> ""]

\* ------------------------------------------------------------------- Init
Init ==
  /\ users = [u \in Users |-> [plan_type |-> "free"]]
  /\ \E sc \in Scenarios :
       /\ api_keys = [k \in Keys |->
                        [exists |-> TRUE, user_id |-> Owner[k],
                         is_active |-> (k = "k1"),
                         quota_percentage |->
                           IF k = "k1" THEN sc.quota_percentage ELSE 100,
                         assigned_to_email |-> "", assigned_to_user_id |-> "",
                         assignment_status |-> "unassigned", invitation_token |-> NULL]]
       /\ api_key_usage_history =
            IF sc.credits_used = 0 THEN <<>>
            ELSE <<HistoryRow("k1", 0, M_Sonnet, sc.credits_used)>>
  /\ oauth_tokens = [u \in Users |-> NoTokenRow]
  /\ api_key_usage = [k \in Keys |-> ZeroUsage]
  /\ now = 0
  /\ issued = 0
  /\ rq = [r \in Requests |-> IdleRequest]
  /\ charged = [k \in Keys |-> 0]
  /\ peak = [k \in Keys |-> 0]
  /\ reported = [k \in Keys |-> NoCalls]
  /\ last = NoOperation

\* ------------------------------------------------- proxyToClaudeAPI, steps
\* the handler returns: its locals are gone, the reply stays
Finish(r, cur, reply) ==
  rq' = [rq EXCEPT ![r] = [IdleRequest EXCEPT !.pc = "done", !.keyId = cur.keyId,
                                              !.recorded = cur.recorded,
                                              !.revokedKey = cur.revokedKey,
                                              !.reply = reply]]

\* steps 1-2: authorization header, validateApiKey
Receive(r) ==
  /\ rq[r].pc = "idle"
  /\ \A q \in Requests : q < r => rq[q].pc # "idle"
  /\ \E header \in HeaderChoices, dbOk \in BOOLEAN :
       LET keyValidation == validateApiKey(api_keys, header, dbOk)
           \* history: the revoked key whose secret the request presents
           cur == [rq[r] EXCEPT !.revokedKey =
                     IF header \in Keys /\ ~api_keys[header].is_active
                     THEN header ELSE ""]
       IN
       IF header = "none"
       THEN Finish(r, cur, Reply(401, "missing_authorization", "", NoHeaders))
       ELSE IF ~keyValidation.valid
       THEN Finish(r, cur, Reply(401, "invalid_api_key", "", NoHeaders))
       ELSE rq' = [rq EXCEPT ![r] = [cur EXCEPT !.pc = "connection",
                                               !.keyId = keyValidation.keyId,
                                               !.userId = keyValidation.userId]]
  /\ UNCHANGED <<users, api_keys, oauth_tokens, api_key_usage,
                 api_key_usage_history, now, issued, charged, peak, reported, last>>

\* step 3: hasOAuthConnection(owner)
CheckConnection(r) ==
  /\ rq[r].pc = "connection"
  /\ \E dbOk \in BOOLEAN :
       LET tokens == getOAuthTokens(oauth_tokens, rq[r].userId, dbOk)
           cur == [rq[r] EXCEPT !.tokens = tokens.kind]
       IN IF ~hasOAuthConnection(oauth_tokens, rq[r].userId, dbOk)
          THEN Finish(r, cur, Reply(401, "authentication_error", rq[r].userId, NoHeaders))
          ELSE rq' = [rq EXCEPT ![r] = [cur EXCEPT !.pc = "quota"]]
  /\ UNCHANGED <<users, api_keys, oauth_tokens, api_key_usage,
                 api_key_usage_history, now, issued, charged, peak, reported, last>>

\* requests of key k that passed the quota check and have not returned
AdmittedPcs ==
  {"token", "refresh", "awaitingRefresh", "save", "body", "fetch", "awaiting", "track"}
InFlight(q, k) == Cardinality({r \in Requests : q[r].keyId = k /\ q[r].pc \in AdmittedPcs})

\* variant: the seconds are rounded down
CeilSeconds_floor(ms) == ms \div 1000

\* ceil(ms / 1000)
CeilSeconds(ms) == (ms + 999) \div 1000

\* variant: the plan is not looked up, the default is used
getPlanType_default(usersTbl, userId) == "pro"

\* SELECT plan_type FROM users WHERE id = $1; rows[0]?.plan_type || 'pro'
getPlanType(usersTbl, userId) ==
  IF usersTbl[userId].plan_type = "" THEN "pro" ELSE usersTbl[userId].plan_type

\* the 429 answer to a denied request
DenialReply(planType, quotaCheck) ==
  Reply(429, "rate_limit_error", "",
        [present |-> TRUE,
         limit |-> PLAN_LIMITS[planType].creditsPerWindow,
         remaining |-> 0,
         reset |-> quotaCheck.resetTime,
         percentage |-> NULL,
         retryAfter |-> CeilSeconds(quotaCheck.usage.timeUntilResetMs)])

\* step 4: plan of the owner, checkQuotaLimit, 429 when denied
CheckQuota(r) ==
  /\ rq[r].pc = "quota"
  /\ LET planType == getPlanType(users, rq[r].userId)
         quotaCheck == checkQuotaLimit(api_keys, api_key_usage_history,
                                       rq[r].keyId, planType, now)
         cur == [rq[r] EXCEPT !.planType = planType, !.checked = TRUE,
                              !.quotaCheck = quotaCheck]
     IN IF ~quotaCheck.allowed
        THEN Finish(r, cur, DenialReply(planType, quotaCheck))
        ELSE rq' = [rq EXCEPT ![r] = [cur EXCEPT !.pc = "token"]]
  /\ peak' = [peak EXCEPT ![rq[r].keyId] =
                IF InFlight(rq', rq[r].keyId) > @ THEN InFlight(rq', rq[r].keyId) ELSE @]
  /\ UNCHANGED <<users, api_keys, oauth_tokens, api_key_usage,
                 api_key_usage_history, now, issued, charged, reported, last>>


\* step 5: ensureValidToken, up to the expiry test
EnsureToken(r) ==
  /\ rq[r].pc = "token"
  /\ \E dbOk \in BOOLEAN :
       LET oauthTokens == getOAuthTokens(oauth_tokens, rq[r].userId, dbOk) IN
       IF oauthTokens.kind # "row"
       THEN Finish(r, rq[r], Reply(401, "oauth_token_missing", "", NoHeaders))
       ELSE IF oauthTokens.row.expires_at < now
       THEN rq' = [rq EXCEPT ![r] =
                     [@ EXCEPT !.pc = "refresh",
                               !.refreshed = [NoRefresh EXCEPT
                                   !.refresh_token = oauthTokens.row.refresh_token]]]
       ELSE rq' = [rq EXCEPT ![r] =
                     [@ EXCEPT !.pc = "body",
                               !.accessToken = oauthTokens.row.access_token]]
  /\ UNCHANGED <<users, api_keys, oauth_tokens, api_key_usage,
                 api_key_usage_history, now, issued, charged, peak, reported, last>>

\* variant: a refused refresh discards the stored credential
RefreshToken_discards(r) ==
  /\ rq[r].pc = "refresh"
  /\ \/ /\ Finish(r, rq[r], Reply(401, "oauth_refresh_failed", "", NoHeaders))
        /\ oauth_tokens' = disconnectOAuth(oauth_tokens, rq[r].userId)
        /\ UNCHANGED issued
     \/ /\ issued < MaxIssued
        /\ issued' = issued + 1
        /\ rq' = [rq EXCEPT ![r] =
                    [@ EXCEPT !.pc = "save",
                              !.refreshed = [access_token |-> issued + 1,
                                             refresh_token |-> issued + 1,
                                             expires_at |-> now + ExpiresInMs]]]
        /\ UNCHANGED oauth_tokens
  /\ UNCHANGED <<users, api_keys, api_key_usage,
                 api_key_usage_history, now, charged, peak, reported, last>>

\* step 5: refreshAccessToken(refresh_token); the issuer answers, refuses, or
\* never answers: the fetch is given no timeout or abort signal, so the await
\* stays pending
RefreshToken(r) ==
  /\ rq[r].pc = "refresh"
  /\ \/ /\ Finish(r, rq[r], Reply(401, "oauth_refresh_failed", "", NoHeaders))
        /\ UNCHANGED issued
     \/ /\ rq' = [rq EXCEPT ![r] = [@ EXCEPT !.pc = "awaitingRefresh"]]
        /\ UNCHANGED issued
     \/ /\ issued < MaxIssued
        /\ issued' = issued + 1
        /\ rq' = [rq EXCEPT ![r] =
                    [@ EXCEPT !.pc = "save",
                              !.refreshed = [access_token |-> issued + 1,
                                             refresh_token |-> issued + 1,
                                             expires_at |-> now + ExpiresInMs]]]
  /\ UNCHANGED <<users, api_keys, oauth_tokens, api_key_usage,
                 api_key_usage_history, now, charged, peak, reported, last>>

\* step 5: saveOAuthTokens(userId, refreshResult.tokens); a failing statement
\* throws out of ensureValidToken into the handler's catch (500)
SaveRefreshed(r) ==
  /\ rq[r].pc = "save"
  /\ \E dbOk \in BOOLEAN :
       IF dbOk
       THEN /\ oauth_tokens' = saveOAuthTokens(oauth_tokens, rq[r].userId, rq[r].refreshed)
            /\ rq' = [rq EXCEPT ![r] =
                        [@ EXCEPT !.pc = "body",
                                  !.accessToken = rq[r].refreshed.access_token]]
       ELSE /\ Finish(r, rq[r], Reply(500, "internal_server_error", "", NoHeaders))
            /\ UNCHANGED oauth_tokens
  /\ UNCHANGED <<users, api_keys, api_key_usage, api_key_usage_history, now, issued,
                 charged, peak, reported, last>>

\* variant: the content type is not tested
ParseBody_lenient(r) ==
  /\ rq[r].pc = "body"
  /\ \E body \in BodyChoices :
       IF body.kind \in {"badJson", "notObject"}
       THEN Finish(r, rq[r], Reply(400, "invalid_request_error", "", NoHeaders))
       ELSE rq' = [rq EXCEPT ![r] = [@ EXCEPT !.pc = "fetch", !.model = body.model,
                                              !.bodyKind = body.kind]]
  /\ UNCHANGED <<users, api_keys, oauth_tokens, api_key_usage,
                 api_key_usage_history, now, issued, charged, peak, reported, last>>

\* step 6: content type and JSON body
ParseBody(r) ==
  /\ rq[r].pc = "body"
  /\ \E body \in BodyChoices :
       IF body.kind # "json"
       THEN Finish(r, rq[r], Reply(400, "invalid_request_error", "", NoHeaders))
       ELSE rq' = [rq EXCEPT ![r] = [@ EXCEPT !.pc = "fetch", !.model = body.model,
                                              !.bodyKind = body.kind]]
  /\ UNCHANGED <<users, api_keys, oauth_tokens, api_key_usage,
                 api_key_usage_history, now, issued, charged, peak, reported, last>>

\* steps 7-8: the upstream call and its JSON answer; a network error throws;
\* the fetch is given no timeout or abort signal, so when the upstream never
\* answers the await stays pending
Fetch(r) ==
  /\ rq[r].pc = "fetch"
  /\ \/ \E resp \in ResponseChoices :
          rq' = [rq EXCEPT ![r] = [@ EXCEPT !.pc = "track", !.fetched = TRUE,
                                            !.claudeResponse = resp]]
     \/ Finish(r, [rq[r] EXCEPT !.fetched = TRUE],
               Reply(500, "internal_server_error", "", NoHeaders))
     \/ rq' = [rq EXCEPT ![r] = [@ EXCEPT !.pc = "awaiting", !.fetched = TRUE]]
  /\ UNCHANGED <<users, api_keys, oauth_tokens, api_key_usage,
                 api_key_usage_history, now, issued, charged, peak, reported, last>>

\* credit cost of one usage report: the weight applies to all four token counts
CreditsOf(usage) ==
  calculateCreditsUsed(usage.model,
    usage.input_tokens + usage.output_tokens
      + usage.cache_creation_input_tokens + usage.cache_read_input_tokens)

\* body.model || "claude-sonnet-4-20250514"
ModelOf(m) == IF m = NoModel THEN DefaultModel ELSE m

SuccessHeaders(planType, quotaCheck) ==
  [present |-> TRUE,
   limit |-> PLAN_LIMITS[planType].creditsPerWindow,
   remaining |-> Max0(PLAN_LIMITS[planType].creditsPerWindow
                        - quotaCheck.usage.currentCredits),
   reset |-> quotaCheck.resetTime,
   percentage |-> quotaCheck.percentages.creditPercentage,
   retryAfter |-> NULL]

\* variant: a failing updateKeyUsage reaches the handler's catch
Track_failsOnLedgerError(r) ==
  /\ rq[r].pc = "track"
  /\ LET resp == rq[r].claudeResponse
         usage == UsageUpdate(ModelOf(rq[r].model), resp.usage)
         reply == Reply(resp.status, "", "",
                        SuccessHeaders(rq[r].planType, rq[r].quotaCheck))
     IN IF resp.ok /\ resp.hasUsage
        THEN \E dbOk \in BOOLEAN :
               /\ api_key_usage' =
                    updateKeyUsage(api_key_usage, rq[r].keyId, usage, now, dbOk)
               /\ api_key_usage_history' =
                    updateKeyUsageHistory(api_key_usage_history, rq[r].keyId,
                                          usage, now, dbOk)
               /\ charged' = [charged EXCEPT ![rq[r].keyId] =
                                IF dbOk THEN @ + CreditsOf(usage) ELSE @]
               /\ reported' = Report(reported, api_key_usage, rq[r].keyId, usage, dbOk)
               /\ Finish(r, [rq[r] EXCEPT !.recorded = IF dbOk THEN "ok" ELSE "failed"],
                         IF dbOk THEN reply
                         ELSE Reply(500, "internal_server_error", "", NoHeaders))
        ELSE /\ Finish(r, rq[r], reply)
             /\ UNCHANGED <<api_key_usage, api_key_usage_history, charged, reported>>
  /\ UNCHANGED <<users, api_keys, oauth_tokens, now, issued, peak, last>>

\* steps 9-10: updateKeyUsage when the answer is ok and has usage (a failure is
\* only logged), then the upstream's answer with the quota headers
Track(r) ==
  /\ rq[r].pc = "track"
  /\ LET resp == rq[r].claudeResponse
         usage == UsageUpdate(ModelOf(rq[r].model), resp.usage)
         reply == Reply(resp.status, "", "",
                        SuccessHeaders(rq[r].planType, rq[r].quotaCheck))
     IN IF resp.ok /\ resp.hasUsage
        THEN \E dbOk \in BOOLEAN :
               /\ api_key_usage' =
                    updateKeyUsage(api_key_usage, rq[r].keyId, usage, now, dbOk)
               /\ api_key_usage_history' =
                    updateKeyUsageHistory(api_key_usage_history, rq[r].keyId,
                                          usage, now, dbOk)
               /\ charged' = [charged EXCEPT ![rq[r].keyId] =
                                IF dbOk THEN @ + CreditsOf(usage) ELSE @]
               /\ reported' = Report(reported, api_key_usage, rq[r].keyId, usage, dbOk)
               /\ Finish(r, [rq[r] EXCEPT !.recorded = IF dbOk THEN "ok" ELSE "failed"],
                         reply)
        ELSE /\ Finish(r, rq[r], reply)
             /\ UNCHANGED <<api_key_usage, api_key_usage_history, charged, reported>>
  /\ UNCHANGED <<users, api_keys, oauth_tokens, now, issued, peak, last>>

\* ------------------------------------------------------- other operations
\* POST /api/claude/callback: exchangeCode, then saveOAuthTokens
Connect(u) ==
  /\ issued < MaxConnects
  /\ issued' = issued + 1
  /\ oauth_tokens' = saveOAuthTokens(oauth_tokens, u,
                       [access_token |-> issued + 1, refresh_token |-> issued + 1,
                        expires_at |-> now + ExpiresInMs])
  /\ UNCHANGED <<users, api_keys, api_key_usage, api_key_usage_history, now, rq, charged, peak, reported, last>>

\* DELETE /api/claude/disconnect
Disconnect(u) ==
  /\ oauth_tokens[u].exists
  /\ oauth_tokens' = disconnectOAuth(oauth_tokens, u)
  /\ UNCHANGED <<users, api_keys, api_key_usage, api_key_usage_history, now, issued, rq, charged, peak, reported, last>>

\* revokeApiKey(keyId, userId): UPDATE api_keys SET is_active = false
Revoke(k) ==
  /\ api_keys[k].exists /\ api_keys[k].is_active
  /\ api_keys' = [api_keys EXCEPT ![k].is_active = FALSE]
  /\ UNCHANGED <<users, oauth_tokens, api_key_usage, api_key_usage_history, now,
                 issued, rq, charged, peak, reported, last>>

\* the clock
Tick ==
  /\ \E d \in TickSteps : now + d <= MaxNow /\ now' = now + d
  /\ UNCHANGED <<users, api_keys, oauth_tokens, api_key_usage,
                 api_key_usage_history, issued, rq, charged, peak, reported, last>>

Next ==
  \/ \E r \in Requests : Receive(r)
  \/ \E r \in Requests : CheckConnection(r)
  \/ \E r \in Requests : CheckQuota(r)
  \/ \E r \in Requests : EnsureToken(r)
  \/ \E r \in Requests : RefreshToken(r)
  \/ \E r \in Requests : SaveRefreshed(r)
  \/ \E r \in Requests : ParseBody(r)
  \/ \E r \in Requests : Fetch(r)
  \/ \E r \in Requests : Track(r)
  \/ \E u \in Users : Connect(u)
  \/ \E u \in Users : Disconnect(u)
  \/ \E k \in Keys : Revoke(k)
  \/ Tick

Spec == Init /\ [][Next]_vars

\* ------------------------------------------------ the ledger, called directly
\* The store operations as the tests and the maintenance job call them, on a
\* clock that advances a millisecond at a time.

\* variant: the row exactly at the cutoff is deleted too
cleanupOldUsageHistory_inclusive(hist, retentionDays, t) ==
  SelectSeq(hist, LAMBDA row : ~(row.timestamp <= t - retentionDays * 24 * HourMs))

\* the api_key_usage_history table after cleanupOldUsageHistory(retentionDays)
cleanupOldUsageHistory(hist, retentionDays, t) ==
  SelectSeq(hist, LAMBDA row : ~(row.timestamp < t - retentionDays * 24 * HourMs))

\* the api_keys table after deleteApiKey(keyId, userId)
deleteApiKey(keys, keyId, userId) ==
  IF keys[keyId].exists /\ keys[keyId].user_id = userId
  THEN [keys EXCEPT ![keyId] = NoKeyRow]
  ELSE keys

\* FOREIGN KEY (key_id) REFERENCES api_keys(id) ON DELETE CASCADE, on each table
CascadeUsage(tbl, keys) ==
  [k \in Keys |-> IF keys[k].exists THEN tbl[k] ELSE NoUsageRow]

\* variant: the history rows outlive their key
CascadeHistory_keeps(hist, keys) == hist

CascadeHistory(hist, keys) ==
  SelectSeq(hist, LAMBDA row : keys[row.key_id].exists)

\* variant: INSERT ... ON CONFLICT (key_id) DO UPDATE, the counters back to zero
initializeKeyUsage_upsert(tbl, keys, keyId, dbOk) ==
  IF dbOk /\ keys[keyId].exists
  THEN [ok |-> TRUE, tbl |-> [tbl EXCEPT ![keyId] = ZeroUsage]]
  ELSE [ok |-> FALSE, tbl |-> tbl]

\* initializeKeyUsage(keyId): a plain INSERT; it throws when the statement
\* fails, when the key is missing (foreign key) and when the key has a row
\* already (primary key)
initializeKeyUsage(tbl, keys, keyId, dbOk) ==
  IF dbOk /\ keys[keyId].exists /\ ~tbl[keyId].exists
  THEN [ok |-> TRUE, tbl |-> [tbl EXCEPT ![keyId] = ZeroUsage]]
  ELSE [ok |-> FALSE, tbl |-> tbl]

\* the instant the ledger runs start at: later than every age seeded
LedgerStart == 3 * 24 * HourMs

\* rows the tests insert: key, age of the row at the insert, credits
SeedChoices ==
  {[key |-> "k1", age |-> a, credits |-> 60] :
     a \in {0, 24 * HourMs, 24 * HourMs + 1, 2 * 24 * HourMs + 1}}
  \cup {[key |-> "k1", age |-> 0, credits |-> 10000],
        [key |-> "k2", age |-> 0, credits |-> 60]}

\* usage reports of updateKeyUsage calls
LedgerUsageChoices ==
  {UsageUpdate(M_Sonnet, u) :
     u \in UsageChoices \cup
           {[input_tokens |-> 7, output_tokens |-> 5,
             cache_creation_input_tokens |-> 0, cache_read_input_tokens |-> 3]}}

RetentionChoices == {0, 1, 2}

\* plans a tenant asks for; the last is no plan
PlanChoices == {"free", "pro", "invalid-plan"}

\* the users table after updateUserPlan(userId, plan): a plan outside
\* PLAN_LIMITS and an unknown user are refused
updateUserPlan(usersTbl, userId, plan) ==
  IF plan \in PlanTypes /\ userId \in DOMAIN usersTbl
  THEN [success |-> TRUE, tbl |-> [usersTbl EXCEPT ![userId].plan_type = plan]]
  ELSE [success |-> FALSE, tbl |-> usersTbl]

NoEvaluations == [r \in Requests |-> IdleRequest]
\* rowCount: rows the statement deleted
Operation(op, k, ok, arg, rowCount) ==
  [op |-> op, key |-> k, ok |-> ok, arg |-> arg, rowCount |-> rowCount, n |-> last.n + 1]

LedgerInit ==
  /\ users = [u \in Users |-> [plan_type |-> "free"]]
  /\ \E q \in {1, NULL} :
       api_keys = [k \in Keys |->
                     [exists |-> TRUE, user_id |-> Owner[k], is_active |-> TRUE,
                      quota_percentage |-> IF k = "k1" THEN q ELSE 100,
                      assigned_to_email |-> "", assigned_to_user_id |-> "",
                      assignment_status |-> "unassigned", invitation_token |-> NULL]]
  /\ api_key_usage_history = <<>>
  /\ oauth_tokens = [u \in Users |-> NoTokenRow]
  /\ api_key_usage = [k \in Keys |-> ZeroUsage]
  /\ now = LedgerStart
  /\ issued = 0
  /\ rq = NoEvaluations
  /\ charged = [k \in Keys |-> 0]
  /\ peak = [k \in Keys |-> 0]
  /\ reported = [k \in Keys |-> NoCalls]
  /\ last = NoOperation

\* INSERT INTO api_key_usage_history ... VALUES (key, ..., credits, timestamp)
LSeed ==
  /\ last.n < MaxOps
  /\ Len(api_key_usage_history) < MaxRows
  /\ \E sd \in SeedChoices :
       /\ api_keys[sd.key].exists
       /\ api_key_usage_history' =
            Append(api_key_usage_history,
                   HistoryRow(sd.key, now - sd.age, M_Sonnet, sd.credits))
       /\ last' = Operation("seed", sd.key, TRUE, sd.age, 0)
  /\ rq' = NoEvaluations
  /\ UNCHANGED <<users, api_keys, oauth_tokens, api_key_usage, now, issued,
                 charged, peak, reported>>

\* updateKeyUsage(keyId, usage) for a key of the api_keys table
LRecord(k) ==
  /\ last.n < MaxOps
  /\ api_keys[k].exists
  /\ \E usage \in LedgerUsageChoices, dbOk \in BOOLEAN :
       /\ api_key_usage' = updateKeyUsage(api_key_usage, k, usage, now, dbOk)
       /\ api_key_usage_history' =
            updateKeyUsageHistory(api_key_usage_history, k, usage, now, dbOk)
       /\ charged' = [charged EXCEPT ![k] = IF dbOk THEN @ + CreditsOf(usage) ELSE @]
       /\ reported' = Report(reported, api_key_usage, k, usage, dbOk)
       /\ last' = Operation("record", k, dbOk, usage.input_tokens, 0)
  /\ rq' = NoEvaluations
  /\ UNCHANGED <<users, api_keys, oauth_tokens, now, issued, peak>>

\* the retention job: cleanupOldUsageHistory(retentionDays)
LCleanup ==
  /\ last.n < MaxOps
  /\ \E retentionDays \in RetentionChoices :
       /\ api_key_usage_history' =
            cleanupOldUsageHistory(api_key_usage_history, retentionDays, now)
       /\ last' = Operation("cleanup", "", TRUE, retentionDays,
                            Len(api_key_usage_history) - Len(api_key_usage_history'))
  /\ rq' = NoEvaluations
  /\ UNCHANGED <<users, api_keys, oauth_tokens, api_key_usage, now, issued,
                 charged, peak, reported>>

\* DELETE /api/keys/:id: deleteApiKey, and the cascade of the two usage tables;
\* the operation log notes the history rows the cascade removed
LDelete(k) ==
  /\ last.n < MaxOps
  /\ \E userId \in {"u1", "u2"} : api_keys' = deleteApiKey(api_keys, k, userId)
  /\ api_key_usage' = CascadeUsage(api_key_usage, api_keys')
  /\ api_key_usage_history' = CascadeHistory(api_key_usage_history, api_keys')
  /\ last' = Operation("delete", k, api_keys' # api_keys,
                       Len(api_key_usage_history) - Len(api_key_usage_history'),
                       IF api_keys' # api_keys THEN 1 ELSE 0)
  /\ reported' = [j \in Keys |-> IF api_keys'[j].exists THEN reported[j] ELSE NoCalls]
  /\ rq' = NoEvaluations
  /\ UNCHANGED <<users, oauth_tokens, now, issued, charged, peak>>

\* initializeKeyUsage(keyId), called again for a key; the operation log notes
\* whether the statement reached the store
LInitialize(k) ==
  /\ last.n < MaxOps
  /\ \E dbOk \in BOOLEAN :
       LET res == initializeKeyUsage(api_key_usage, api_keys, k, dbOk) IN
       /\ api_key_usage' = res.tbl
       /\ last' = Operation("initialize", k, res.ok, IF dbOk THEN 1 ELSE 0, 0)
  /\ rq' = NoEvaluations
  /\ UNCHANGED <<users, api_keys, oauth_tokens, api_key_usage_history, now, issued,
                 charged, peak, reported>>

\* generateApiKey(userId): the INSERT of the key, then initializeKeyUsage; a
\* failure of either is caught and reported, the inserted key row stays
LGenerate(k) ==
  /\ last.n < MaxOps
  /\ ~api_keys[k].exists
  /\ \E keyOk \in BOOLEAN, dbOk \in BOOLEAN :
       LET keys == IF keyOk
                   THEN [api_keys EXCEPT ![k] =
                           [exists |-> TRUE, user_id |-> "u1", is_active |-> TRUE,
                            quota_percentage |-> DefaultQuotaPercentage,
                            assigned_to_email |-> "", assigned_to_user_id |-> "",
                            assignment_status |-> "unassigned", invitation_token |-> NULL]]
                   ELSE api_keys
           res == IF keyOk THEN initializeKeyUsage(api_key_usage, keys, k, dbOk)
                  ELSE [ok |-> FALSE, tbl |-> api_key_usage]
       IN /\ api_keys' = keys
          /\ api_key_usage' = res.tbl
          /\ last' = Operation("generate", k, res.ok, 0, 0)
  /\ rq' = NoEvaluations
  /\ UNCHANGED <<users, oauth_tokens, api_key_usage_history, now, issued,
                 charged, peak, reported>>

\* variant: the evaluation leaves a row of its own in the history
LEvaluate_reserves(r) ==
  /\ rq[r].pc = "idle"
  /\ \A q \in Requests : q < r => rq[q].pc = "evaluated"
  /\ \E k \in Keys :
       LET planType == getPlanType(users, Owner[k])
           quotaCheck == checkQuotaLimit(api_keys, api_key_usage_history, k, planType, now)
       IN /\ rq' = [rq EXCEPT ![r] =
                      [IdleRequest EXCEPT
                         !.pc = "evaluated", !.keyId = k, !.userId = Owner[k],
                         !.planType = planType, !.checked = TRUE,
                         !.quotaCheck = quotaCheck,
                         !.reply = IF quotaCheck.allowed THEN NoReply
                                   ELSE DenialReply(planType, quotaCheck)]]
          /\ api_key_usage_history' =
               IF Len(api_key_usage_history) < MaxRows
               THEN Append(api_key_usage_history, HistoryRow(k, now, M_Sonnet, 1))
               ELSE api_key_usage_history
  /\ UNCHANGED <<users, api_keys, oauth_tokens, api_key_usage,
                 now, issued, charged, peak, reported, last>>

\* checkQuotaLimit(keyId, planType) with the plan of the key's owner, and the
\* answer the proxy gives when it denies; the calls are numbered in the order
\* they are made
LEvaluate(r) ==
  /\ rq[r].pc = "idle"
  /\ \A q \in Requests : q < r => rq[q].pc = "evaluated"
  /\ \E k \in Keys :
       LET planType == getPlanType(users, Owner[k])
           quotaCheck == checkQuotaLimit(api_keys, api_key_usage_history, k, planType, now)
       IN rq' = [rq EXCEPT ![r] =
                   [IdleRequest EXCEPT
                      !.pc = "evaluated", !.keyId = k, !.userId = Owner[k],
                      !.planType = planType, !.checked = TRUE,
                      !.quotaCheck = quotaCheck,
                      !.reply = IF quotaCheck.allowed THEN NoReply
                                ELSE DenialReply(planType, quotaCheck)]]
  /\ UNCHANGED <<users, api_keys, oauth_tokens, api_key_usage, api_key_usage_history,
                 now, issued, charged, peak, reported, last>>

\* PATCH /api/user/plan: updateUserPlan(userId, plan)
LChangePlan(u) ==
  /\ last.n < MaxOps
  /\ \E plan \in PlanChoices :
       LET res == updateUserPlan(users, u, plan) IN
       /\ users' = res.tbl
       /\ last' = Operation("plan", u, res.success, 0, 0)
  /\ rq' = NoEvaluations
  /\ UNCHANGED <<api_keys, oauth_tokens, api_key_usage, api_key_usage_history, now,
                 issued, charged, peak, reported>>

\* a millisecond passes
LTick ==
  /\ now < LedgerStart + MaxTicks
  /\ now' = now + 1
  /\ UNCHANGED <<users, api_keys, oauth_tokens, api_key_usage, api_key_usage_history,
                 issued, rq, charged, peak, reported, last>>

LedgerNext ==
  \/ LSeed
  \/ \E k \in Keys : LRecord(k)
  \/ LCleanup
  \/ \E k \in Keys : LDelete(k)
  \/ \E k \in Keys : LInitialize(k)
  \/ \E k \in Keys : LGenerate(k)
  \/ \E r \in Requests : LEvaluate(r)
  \/ \E u \in Users : LChangePlan(u)
  \/ LTick

LedgerSpec == LedgerInit /\ [][LedgerNext]_vars


\* ----------------------------------------------------------------- terms
\* effective limit of key k: floor(plan credits * quotaPercentage / 100)
EffLimit(k) ==
  LET q == api_keys[k].quota_percentage IN
  (PLAN_LIMITS[users[api_keys[k].user_id].plan_type].creditsPerWindow
     * (IF q = NULL THEN 100 ELSE q)) \div 100

\* in-window credits of key k in a history table at time t
CreditsInWindow(hist, k, t) ==
  getRollingWindowUsage(hist, k,
     PLAN_LIMITS[users[api_keys[k].user_id].plan_type].windowHours, t).currentCredits

WindowCredits(k) == CreditsInWindow(api_key_usage_history, k, now)

\* the quota decision for key k on given tables
DecisionOn(hist, k, t) ==
  checkQuotaLimit(api_keys, hist, k, users[api_keys[k].user_id].plan_type, t)

Decision(k) == DecisionOn(api_key_usage_history, k, now)

\* request r completes updateKeyUsage successfully in this step
Records(r) == rq[r].pc = "track" /\ rq[r].recorded = "none" /\ rq'[r].recorded = "ok"

\* the usage report request r hands to updateKeyUsage
ReportOf(r) == UsageUpdate(ModelOf(rq[r].model), rq[r].claudeResponse.usage)

\* rows of key k
RowsOf(hist, k) == SelectSeq(hist, LAMBDA row : row.key_id = k)

\* the largest credit cost one request can have
MaxCreditCost ==
  LET costs == {CreditsOf(UsageUpdate(ModelOf(b.model), u)) :
                   b \in BodyChoices, u \in UsageChoices}
  IN CHOOSE c \in costs : \A d \in costs : d <= c


\* ---------------------------------------------------------------- claims

\* C1: when the requests of a credential are handled one at a time, the request
\* whose recorded usage brings the in-window credits to exactly the effective
\* limit was itself admitted, and the decision for the next request of that
\* credential is a denial.
C1_AtLimitNextDenied ==
  [][\A r \in Requests :
       LET k == rq[r].keyId IN
       (/\ Records(r)
        /\ peak[k] <= 1
        /\ \A q \in Requests \ {r} : rq[q].keyId = k => rq[q].pc = "done"
        /\ WindowCredits(k) + CreditsOf(ReportOf(r)) = EffLimit(k))
       => /\ rq[r].quotaCheck.allowed
          /\ ~DecisionOn(api_key_usage_history', k, now').allowed]_vars

\* C2: every successful updateKeyUsage call inserts exactly one usage-history
\* row for the key, stamped with the current time and carrying the credit cost
\* of the credit model, and increments the key's aggregate counters and its
\* request count.
C2_RecordInsertsOneRow ==
  [][\A r \in Requests :
       Records(r) =>
         LET k == rq[r].keyId
             u == ReportOf(r)
             old == api_key_usage[k]
             new == api_key_usage'[k]
             hist == api_key_usage_history'
         IN /\ Len(hist) = Len(api_key_usage_history) + 1
            /\ SubSeq(hist, 1, Len(api_key_usage_history)) = api_key_usage_history
            /\ hist[Len(hist)].key_id = k
            /\ hist[Len(hist)].timestamp = now
            /\ hist[Len(hist)].credits_used = CreditsOf(u)
            /\ new.request_count = old.request_count + 1
            /\ new.input_tokens = old.input_tokens + u.input_tokens
            /\ new.output_tokens = old.output_tokens + u.output_tokens
            /\ new.cache_creation_tokens
                 = old.cache_creation_tokens + u.cache_creation_input_tokens
            /\ new.cache_read_tokens = old.cache_read_tokens + u.cache_read_input_tokens]_vars

\* C3: a proxied request appends exactly one usage-history row for the
\* presenting key, carrying the upstream answer's token counts, when the answer
\* is successful and has usage totals (and the ledger write goes through), and
\* appends none otherwise.
C3_ProxyAppendsOneRecord ==
  [][\A r \in Requests :
       (rq[r].pc = "track" /\ rq'[r].pc = "done") =>
         LET k == rq[r].keyId
             resp == rq[r].claudeResponse
             before == RowsOf(api_key_usage_history, k)
             after == RowsOf(api_key_usage_history', k)
         IN IF resp.ok /\ resp.hasUsage
            THEN rq'[r].recorded = "ok" =>
                   /\ Len(after) = Len(before) + 1
                   /\ after[Len(after)].input_tokens = resp.usage.input_tokens
                   /\ after[Len(after)].output_tokens = resp.usage.output_tokens
            ELSE api_key_usage_history' = api_key_usage_history]_vars


\* C4: the quota decision allows exactly when the in-window credits are
\* strictly below the effective limit; usage equal to the limit is denied.
\* Stated of the decision on the current tables and of every request that is
\* past its quota check.
C4_AllowedIffBelowLimit ==
  /\ \A k \in Keys : Decision(k).allowed <=> WindowCredits(k) < EffLimit(k)
  /\ \A r \in Requests :
       rq[r].checked =>
         /\ rq[r].quotaCheck.allowed
         /\ rq[r].quotaCheck.usage.currentCredits < EffLimit(rq[r].keyId)

\* a request was denied with usage exactly at the limit
C4_Witness ==
  \E r \in Requests :
    /\ rq[r].reply.status = 429
    /\ WindowCredits(rq[r].keyId) = EffLimit(rq[r].keyId)

\* C5 as written: the decision admits exactly when the rounded percentageUsed
\* is strictly below 100.
C5_AllowedIffRoundedBelow100 ==
  \A k \in Keys : Decision(k).allowed <=> Decision(k).percentages.creditPercentage < 100

\* C5 amended: percentageUsed is creditsUsed / effectiveLimit * 100 rounded to
\* the nearest integer (halves up), and the request is admitted exactly when
\* the unrounded creditsUsed / effectiveLimit * 100 is strictly below 100.
C5_RoundedReportUnroundedGate ==
  \A k \in Keys :
    LET c == WindowCredits(k)
        L == EffLimit(k)
        p == Decision(k).percentages.creditPercentage
    IN /\ 2 * L * p - L <= 200 * c
       /\ 200 * c < 2 * L * p + L
       /\ Decision(k).allowed <=> 100 * c < 100 * L

\* a request was admitted while its percentageUsed read 100
C5_Witness ==
  \E r \in Requests :
    /\ rq[r].checked
    /\ rq[r].quotaCheck.allowed
    /\ rq[r].quotaCheck.percentages.creditPercentage = 100

\* C6: a failing updateKeyUsage call leaves the usage-history rows and the
\* aggregate exactly as they were.
C6_FailedRecordChangesNothing ==
  [][\A r \in Requests :
       (rq[r].recorded = "none" /\ rq'[r].recorded = "failed") =>
          /\ api_key_usage' = api_key_usage
          /\ api_key_usage_history' = api_key_usage_history]_vars

\* an updateKeyUsage call has failed
C6_Witness == \E r \in Requests : rq[r].recorded = "failed"


\* every instant since the start still lies inside the rolling window of k's plan
SinceStartInWindow(k) ==
  now <= PLAN_LIMITS[users[Owner[k]].plan_type].windowHours * HourMs

\* the credits key k has consumed inside the window: those of its Usage Records
\* and those of the completed updateKeyUsage calls
ConsumedInWindow(k) == WindowCredits(k) + charged[k]

\* C7: when requests of one credential that were in flight together have each
\* passed the quota check and been recorded, and the combined recorded cost
\* exceeds the effective limit, the in-window credits are above the limit.
C7_ConcurrentOvershootShows ==
  \A k \in Keys :
    (/\ peak[k] >= 2
     /\ InFlight(rq, k) = 0
     /\ SinceStartInWindow(k)
     /\ ConsumedInWindow(k) > EffLimit(k))
    => WindowCredits(k) > EffLimit(k)

\* C8: the credits a credential has consumed inside the window exceed its
\* effective limit by at most the largest per-request credit cost times the
\* number of its requests that were admitted and in flight together.
C8_OvershootBounded ==
  \A k \in Keys :
    (SinceStartInWindow(k) /\ WindowCredits(k) <= EffLimit(k))
      => ConsumedInWindow(k) - EffLimit(k) <= MaxCreditCost * peak[k]

\* C9: a request with a valid key whose owner has no upstream credential stored
\* is answered at step 3 with a 401 authentication error naming the owner,
\* with no quota verdict and no upstream call.
C9_NoConnectionRejectedAtStep3 ==
  [][\A r \in Requests :
       (/\ rq[r].pc = "connection"
        /\ rq'[r].pc # "connection"
        /\ ~oauth_tokens[rq[r].userId].exists)
       => /\ rq'[r].pc = "done"
          /\ rq'[r].reply.status = 401
          /\ rq'[r].reply.type = "authentication_error"
          /\ rq'[r].reply.names = rq[r].userId
          /\ ~rq'[r].checked
          /\ ~rq'[r].fetched]_vars

\* C10: hasOAuthConnection(user) is true exactly when an upstream credential is
\* stored for the user.
C10_HasConnectionIffStored ==
  \A u \in Users : hasOAuthConnection(oauth_tokens, u, TRUE) <=> oauth_tokens[u].exists

\* ------------------------------------------------- claims C11..C20: terms
\* requests that hold an access token
HoldsTokenPcs == {"body", "fetch", "awaiting", "track"}

\* the oauth_tokens row that saving the refresh response t gives
RowOf(t) ==
  [exists |-> TRUE, access_token |-> t.access_token,
   refresh_token |-> t.refresh_token, expires_at |-> t.expires_at]

\* request r refreshed the token, saved the response and holds its access token
Refreshed(r) ==
  /\ rq[r].pc \in HoldsTokenPcs
  /\ rq[r].refreshed.access_token # 0
  /\ rq[r].accessToken = rq[r].refreshed.access_token

\* C11: when the stored token is expired and the upstream refresh fails, the
\* oauth_tokens table is left exactly as it was: the row is neither deleted nor
\* modified.
C11_FailedRefreshKeepsStored ==
  [][\A r \in Requests :
       (rq[r].pc = "refresh" /\ rq'[r].pc = "done")
       => /\ rq'[r].reply.status = 401
          /\ oauth_tokens' = oauth_tokens]_vars

\* a refresh has failed and the expired row is still stored, ready for a retry
C11_Witness ==
  \E r \in Requests :
    /\ rq[r].pc = "done"
    /\ rq[r].reply.type = "oauth_refresh_failed"
    /\ oauth_tokens[Owner[rq[r].keyId]].exists
    /\ oauth_tokens[Owner[rq[r].keyId]].expires_at < now
    /\ oauth_tokens[Owner[rq[r].keyId]].refresh_token # 0

\* C12: every caller whose refresh the issuer answers, racing or not, obtains
\* the access token of its own refresh response when its upsert succeeds, and
\* the upsert leaves the stored credential unexpired.
C12_RacingRefreshesAllSucceed ==
  [][\A r \in Requests :
       (rq[r].pc = "save" /\ rq'[r].pc = "body")
       => /\ rq'[r].accessToken = rq[r].refreshed.access_token
          /\ rq'[r].accessToken # 0
          /\ oauth_tokens'[rq[r].userId].exists
          /\ oauth_tokens'[rq[r].userId].expires_at >= now']_vars

\* two requests refreshed the same expired token, each holds its own access
\* token, and the stored credential is unexpired
C12_Witness ==
  \E r1, r2 \in Requests :
    /\ r1 # r2
    /\ rq[r1].userId = rq[r2].userId
    /\ Refreshed(r1) /\ Refreshed(r2)
    /\ rq[r1].accessToken # rq[r2].accessToken
    /\ oauth_tokens[rq[r1].userId].exists
    /\ oauth_tokens[rq[r1].userId].expires_at >= now

\* C13: every change of a user's oauth_tokens row is a delete, the upsert of
\* one code exchange, or the upsert of one request's refresh response: the
\* stored access token, refresh token and expiry come from one response.
C13_StoredTripleFromOneResponse ==
  [][\A u \in Users :
       oauth_tokens'[u] # oauth_tokens[u]
       => \/ oauth_tokens'[u] = NoTokenRow
          \/ /\ issued' = issued + 1
             /\ oauth_tokens'[u] =
                  RowOf([access_token |-> issued + 1, refresh_token |-> issued + 1,
                         expires_at |-> now + ExpiresInMs])
          \/ \E r \in Requests :
               /\ rq[r].pc = "save" /\ rq'[r].pc = "body"
               /\ rq[r].userId = u
               /\ rq[r].refreshed.access_token = rq[r].refreshed.refresh_token
               /\ oauth_tokens'[u] = RowOf(rq[r].refreshed)]_vars

\* two refresh responses were saved one after the other; the row is the second
\* one whole, and the first request still holds the overwritten token
C13_Witness ==
  \E r1, r2 \in Requests :
    /\ Refreshed(r1) /\ Refreshed(r2)
    /\ rq[r1].userId = rq[r2].userId
    /\ rq[r1].refreshed # rq[r2].refreshed
    /\ oauth_tokens[rq[r2].userId] = RowOf(rq[r2].refreshed)

C15_LedgerFailureKeepsResponse ==
  [][\A r \in Requests :
       (rq[r].pc = "track" /\ rq'[r].recorded = "failed")
       => /\ rq'[r].pc = "done"
          /\ rq[r].claudeResponse.ok
          /\ rq'[r].reply.status = rq[r].claudeResponse.status
          /\ rq'[r].reply.type = ""
          /\ rq'[r].reply.headers.present]_vars

\* a request whose usage could not be recorded was answered 200
C15_Witness ==
  \E r \in Requests :
    /\ rq[r].pc = "done"
    /\ rq[r].recorded = "failed"
    /\ rq[r].reply.status = 200

\* the steps request r can take
StepOf(r) ==
  \/ Receive(r) \/ CheckConnection(r) \/ CheckQuota(r) \/ EnsureToken(r)
  \/ RefreshToken(r) \/ SaveRefreshed(r) \/ ParseBody(r) \/ Fetch(r) \/ Track(r)

\* C16: no request is left hanging: every request that has been received and
\* not yet answered can take a step, also when the upstream or the token
\* issuer never answers.
C16_NoRequestHangs ==
  \A r \in Requests : rq[r].pc \notin {"idle", "done"} => ENABLED StepOf(r)

\* C17: a revoked key stays revoked and never validates again, and a request
\* that presents the secret of a revoked key is answered 401 at step 2, with
\* no quota check, no upstream call and no usage recorded.
C17_RevokedKeyStaysRejected ==
  [][/\ \A k \in Keys :
          ~api_keys[k].is_active
          => /\ ~api_keys'[k].is_active
             /\ ~validateApiKey(api_keys', k, TRUE).valid
     /\ \A r \in Requests :
          rq'[r].revokedKey # ""
          => /\ rq'[r].pc = "done"
             /\ rq'[r].reply.status = 401
             /\ rq'[r].reply.type = "invalid_api_key"
             /\ rq'[r].keyId = ""
             /\ rq'[r].recorded = "none"
             /\ (rq[r].pc = "idle"
                   => /\ api_key_usage' = api_key_usage
                      /\ api_key_usage_history' = api_key_usage_history
                      /\ peak' = peak)]_vars

\* k1, active at the start, was revoked; a later request presenting its secret
\* was answered 401 after an earlier request with the same secret was served
C17_Witness ==
  \E r1, r2 \in Requests :
    /\ rq[r1].pc = "done" /\ rq[r1].keyId = "k1" /\ rq[r1].reply.status = 200
    /\ rq[r2].revokedKey = "k1"
    /\ rq[r2].pc = "done" /\ rq[r2].reply.status = 401
    /\ ~api_keys["k1"].is_active

\* request r has been answered
Answered(r) == rq[r].pc = "done" /\ rq[r].reply.status # 0

\* C18: every response to a proxied request carries X-RateLimit-Limit,
\* X-RateLimit-Remaining, X-RateLimit-Reset and X-Quota-Percentage.
C18_QuotaHeadersOnEveryResponse ==
  \A r \in Requests :
    Answered(r)
    => /\ rq[r].reply.headers.present
       /\ rq[r].reply.headers.percentage # NULL

\* C19: the X-RateLimit-Limit header of a response equals the effective limit
\* of the presenting key, floor(creditsPerWindow * quota_percentage / 100).
C19_LimitHeaderIsEffectiveLimit ==
  \A r \in Requests :
    (Answered(r) /\ rq[r].reply.headers.present)
    => rq[r].reply.headers.limit = EffLimit(rq[r].keyId)

\* C20: the X-RateLimit-Remaining header of a response equals
\* max(0, effective limit - in-window credits), with the in-window credits of
\* the quota verdict the response follows.
C20_RemainingHeaderIsLimitMinusUsed ==
  [][\A r \in Requests :
       (rq[r].pc # "done" /\ rq'[r].pc = "done" /\ rq'[r].reply.headers.present)
       => LET k == rq'[r].keyId
              used == IF rq[r].checked THEN rq[r].quotaCheck.usage.currentCredits
                      ELSE WindowCredits(k)
          IN rq'[r].reply.headers.remaining = Max0(EffLimit(k) - used)]_vars

\* ------------------------------------------------------------------ ledger terms
\* the quota evaluations made since the last store operation
Evaluations == {r \in Requests : rq[r].pc = "evaluated"}
Denials == {r \in Evaluations : rq[r].reply.status = 429}
\* time from the evaluation to the reset instant it reports, ms
RemainingMs(r) == rq[r].quotaCheck.resetTime - rq[r].quotaCheck.usage.windowEndTime

\* C21: every quota denial carries a Retry-After header, a whole number of
\* seconds that is greater than 0 and not less than the time remaining until
\* the reset instant.
C21_RetryAfterPositiveAndCovers ==
  \A r \in Denials :
    /\ rq[r].reply.headers.retryAfter # NULL
    /\ rq[r].reply.headers.retryAfter > 0
    /\ rq[r].reply.headers.retryAfter * 1000 >= RemainingMs(r)

\* C21, as the code has it: Retry-After is the time remaining until the reset
\* instant in seconds, rounded up: never negative, never less than the time
\* remaining, less than a second more than it, and 0 exactly when the denial
\* is evaluated at the reset instant itself.
C21_RetryAfterIsCeilOfRemaining ==
  \A r \in Denials :
    /\ rq[r].reply.headers.retryAfter # NULL
    /\ rq[r].reply.headers.retryAfter >= 0
    /\ rq[r].reply.headers.retryAfter * 1000 >= RemainingMs(r)
    /\ rq[r].reply.headers.retryAfter * 1000 < RemainingMs(r) + 1000
    /\ (rq[r].reply.headers.retryAfter = 0 <=> RemainingMs(r) = 0)

\* one denial evaluated at the reset instant, another a fraction of a second
\* short of a whole number of seconds before it
C21_Witness ==
  /\ \E r \in Denials : RemainingMs(r) = 0 /\ rq[r].reply.headers.retryAfter = 0
  /\ \E r \in Denials : RemainingMs(r) % 1000 # 0 /\ rq[r].reply.headers.retryAfter > 0

\* sum of the credits of the rows of a table at the positions in I
RECURSIVE SumAt(_, _)
SumAt(hist, I) ==
  IF I = {} THEN 0
  ELSE LET i == CHOOSE j \in I : TRUE IN hist[i].credits_used + SumAt(hist, I \ {i})

\* positions of the rows of key k that are at most windowHours old at instant t
NotOlderThan(hist, k, windowHours, t) ==
  {i \in DOMAIN hist : hist[i].key_id = k /\ t - hist[i].timestamp <= windowHours * HourMs}

EvalKey(r) == rq[r].keyId
EvalTime(r) == rq[r].quotaCheck.usage.windowEndTime
EvalWindow(r) == PLAN_LIMITS[rq[r].planType].windowHours

\* C22: the window usage counts a record of the credential exactly when the
\* record is at most windowHours old at the evaluation (timestamp >= now -
\* windowHours): a record exactly windowHours old is counted, one a millisecond
\* older is not.
C22_WindowBoundaryInclusive ==
  \A r \in Evaluations :
    LET I == NotOlderThan(api_key_usage_history, EvalKey(r), EvalWindow(r), EvalTime(r))
    IN /\ rq[r].quotaCheck.usage.currentRequests = Cardinality(I)
       /\ rq[r].quotaCheck.usage.currentCredits = SumAt(api_key_usage_history, I)

\* an evaluation over one record exactly windowHours old and one a millisecond older
C22_Witness ==
  \E r \in Evaluations :
    /\ Len(api_key_usage_history) = 2
    /\ \A i \in 1..2 : api_key_usage_history[i].key_id = EvalKey(r)
    /\ \E i \in 1..2 :
         EvalTime(r) - api_key_usage_history[i].timestamp = EvalWindow(r) * HourMs
    /\ \E i \in 1..2 :
         EvalTime(r) - api_key_usage_history[i].timestamp = EvalWindow(r) * HourMs + 1
    /\ rq[r].quotaCheck.usage.currentRequests = 1

\* the window usage of the key of evaluation r, had it been evaluated at instant t
UsageAt(r, t) ==
  getRollingWindowUsage(api_key_usage_history, EvalKey(r), EvalWindow(r), t)
NonEmpty == {r \in Evaluations : rq[r].quotaCheck.usage.currentRequests > 0}
\* timestamp of the oldest record evaluation r counts
Oldest(r) ==
  LET I == NotOlderThan(api_key_usage_history, EvalKey(r), EvalWindow(r), EvalTime(r))
  IN CHOOSE ts \in {api_key_usage_history[i].timestamp : i \in I} :
       \A i \in I : ts <= api_key_usage_history[i].timestamp

\* C23: for a non-empty window the reported reset instant is the timestamp of
\* the oldest record in the window plus windowHours, and a window usage
\* evaluated at that instant no longer counts the oldest record.
C23_OldestGoneAtReset ==
  \A r \in NonEmpty :
    /\ rq[r].quotaCheck.resetTime = Oldest(r) + EvalWindow(r) * HourMs
    /\ rq[r].quotaCheck.usage.nextResetAt = rq[r].quotaCheck.resetTime
    /\ UsageAt(r, rq[r].quotaCheck.resetTime).oldestRequestTimestamp # Oldest(r)

\* C23, as the code has it: the reset instant is the oldest timestamp plus
\* windowHours; at that instant the oldest record is exactly windowHours old
\* and still counted, and it stops being counted one millisecond later.
C23_OldestGoneAfterReset ==
  \A r \in NonEmpty :
    /\ rq[r].quotaCheck.usage.oldestRequestTimestamp = Oldest(r)
    /\ rq[r].quotaCheck.resetTime = Oldest(r) + EvalWindow(r) * HourMs
    /\ rq[r].quotaCheck.usage.nextResetAt = rq[r].quotaCheck.resetTime
    /\ UsageAt(r, rq[r].quotaCheck.resetTime).oldestRequestTimestamp = Oldest(r)
    /\ UsageAt(r, rq[r].quotaCheck.resetTime + 1).oldestRequestTimestamp # Oldest(r)

\* an evaluation made at the reset instant of its own oldest record, which it
\* counts, and one made a millisecond later, which does not count that record
C23_Witness ==
  \E r, q \in NonEmpty :
    /\ EvalKey(q) = EvalKey(r)
    /\ EvalTime(r) = rq[r].quotaCheck.resetTime
    /\ EvalTime(q) = EvalTime(r) + 1
    /\ rq[r].quotaCheck.usage.currentRequests = 2
    /\ rq[q].quotaCheck.usage.currentRequests = 1
    /\ rq[q].quotaCheck.usage.oldestRequestTimestamp
         > rq[r].quotaCheck.usage.oldestRequestTimestamp

\* the fields of a window usage that do not name the clock
Counts(r) ==
  [credits |-> rq[r].quotaCheck.usage.currentCredits,
   requests |-> rq[r].quotaCheck.usage.currentRequests,
   oldest |-> rq[r].quotaCheck.usage.oldestRequestTimestamp]

PlanLimitInputs == {999, 1000, PLAN_LIMITS["free"].creditsPerWindow,
                    PLAN_LIMITS["pro"].creditsPerWindow}
PercentageInputs == 0..100

\* quota percentage of the key of evaluation r, 100 when none is stored
PercentageOf(r) ==
  IF api_keys[EvalKey(r)].quota_percentage = NULL THEN 100
  ELSE api_keys[EvalKey(r)].quota_percentage

\* C25: the effective limit is floor(planLimit * quotaPercentage / 100), the
\* whole number e with 100e <= planLimit * quotaPercentage < 100(e + 1); a
\* credential is admitted exactly when its in-window credits are below it, and
\* a credential with no stored quota percentage is treated as one at 100.
C25_EffectiveLimitIsFloor ==
  /\ \A planLimit \in PlanLimitInputs, q \in PercentageInputs :
       LET e == calculateEffectiveLimit(planLimit, q)
       IN 100 * e <= planLimit * q /\ planLimit * q < 100 * (e + 1)
  /\ \A r \in Evaluations :
       /\ rq[r].quotaCheck.allowed
            <=> 100 * (rq[r].quotaCheck.usage.currentCredits + 1)
                  <= PLAN_LIMITS[rq[r].planType].creditsPerWindow * PercentageOf(r)
       /\ rq[r].quotaCheck
            = checkQuotaLimit([api_keys EXCEPT ![EvalKey(r)].quota_percentage = PercentageOf(r)],
                              api_key_usage_history, EvalKey(r), rq[r].planType, EvalTime(r))

\* a key with no stored percentage is denied at the full plan limit, and a
\* product that is no multiple of 100 is rounded down
C25_Witness ==
  /\ \E r \in Denials :
       /\ api_keys[EvalKey(r)].exists
       /\ api_keys[EvalKey(r)].quota_percentage = NULL
       /\ rq[r].quotaCheck.usage.currentCredits
            >= PLAN_LIMITS[rq[r].planType].creditsPerWindow
  /\ calculateEffectiveLimit(999, 33) = 329

\* the admission decision for key k on given tables at instant t
AllowedOn(keys, hist, k, t) ==
  checkQuotaLimit(keys, hist, k, users[Owner[k]].plan_type, t).allowed
\* sum of the credits of the in-window records of key k itself
OwnCredits(hist, k, t) ==
  SumAt(hist, NotOlderThan(hist, k, PLAN_LIMITS[users[Owner[k]].plan_type].windowHours, t))
\* the same table with another dollar cost on every record
OtherCosts(hist) == [i \in DOMAIN hist |-> [hist[i] EXCEPT !.cost = @ + 1]]

\* C26: the admission decision is a function of the sum of the credits of the
\* credential's own in-window records and of its effective limit alone. A step
\* that leaves that sum, the key table and the clock as they are, whatever it
\* does to the aggregate rows or to the records of other credentials, leaves
\* the decision as it is, and so does any change of the dollar costs.
C26_DecisionReadsOwnWindowOnly ==
  /\ [](\A k \in Keys :
          AllowedOn(api_keys, OtherCosts(api_key_usage_history), k, now)
            = AllowedOn(api_keys, api_key_usage_history, k, now))
  /\ [][\A k \in Keys :
          (/\ api_keys' = api_keys
           /\ users' = users
           /\ now' = now
           /\ OwnCredits(api_key_usage_history', k, now)
                = OwnCredits(api_key_usage_history, k, now))
          => AllowedOn(api_keys', api_key_usage_history', k, now')
               = AllowedOn(api_keys, api_key_usage_history, k, now)]_vars

\* k1 is admitted below its limit while the records of k2 in the window would
\* carry the total over it, and the aggregate of k1 has been written
C26_Witness ==
  \E r \in Evaluations :
    /\ EvalKey(r) = "k1" /\ EvalTime(r) = now
    /\ rq[r].quotaCheck.allowed
    /\ api_keys["k1"].quota_percentage = 1
    /\ OwnCredits(api_key_usage_history, "k1", now) = 60
    /\ OwnCredits(api_key_usage_history, "k2", now) = 60
    /\ api_key_usage["k1"].request_count > 0

\* C27: after any number n of successful updateKeyUsage calls on a credential's
\* aggregate, in whatever order they ran, each token counter of the aggregate
\* is the sum of that field over the calls, the total is the sum of the four,
\* and the request count is n; failed calls add nothing.
C27_AggregateIsSumOfCalls ==
  \A k \in Keys :
    api_key_usage[k].exists =>
      /\ api_key_usage[k].input_tokens = reported[k].input_tokens
      /\ api_key_usage[k].output_tokens = reported[k].output_tokens
      /\ api_key_usage[k].cache_creation_tokens = reported[k].cache_creation_tokens
      /\ api_key_usage[k].cache_read_tokens = reported[k].cache_read_tokens
      /\ api_key_usage[k].total_tokens =
           reported[k].input_tokens + reported[k].output_tokens
             + reported[k].cache_creation_tokens + reported[k].cache_read_tokens
      /\ api_key_usage[k].request_count = reported[k].calls

\* three successful calls on one key, not all with the same usage
C27_Witness ==
  \E k \in Keys :
    /\ api_key_usage[k].exists
    /\ reported[k].calls = 3
    /\ api_key_usage[k].request_count = 3
    /\ api_key_usage[k].input_tokens \in {74, 127}

\* the step is a run of the store operation op
Ran(op) == last'.op = op /\ last'.n = last.n + 1

\* C28: a run of the retention job with a horizon of d days deletes the
\* records older than d days at the run and no other: the records at most d
\* days old, the one exactly d days old among them, stay in their order, and
\* no aggregate row and no key changes.
C28_RetentionDeletesOnlyOlder ==
  [][Ran("cleanup") =>
       /\ api_key_usage_history' =
            SelectSeq(api_key_usage_history,
                      LAMBDA row : now - row.timestamp <= last'.arg * 24 * HourMs)
       /\ api_key_usage' = api_key_usage
       /\ api_keys' = api_keys]_vars

\* a run with a horizon of one day has deleted one record and kept the record
\* that was exactly one day old
C28_Witness ==
  /\ last.op = "cleanup" /\ last.arg = 1 /\ last.rowCount = 1
  /\ Len(api_key_usage_history) = 1
  /\ now - api_key_usage_history[1].timestamp = 24 * HourMs
  /\ \A k \in Keys : api_key_usage[k].exists

\* C29: deleting a credential deletes its aggregate row and every one of its
\* usage records, and nothing of any other credential; no record and no
\* aggregate row is ever left without its credential. A delete that removes no
\* key (wrong owner, or no such key) removes nothing.
C29_DeleteCascades ==
  /\ [](/\ \A i \in DOMAIN api_key_usage_history :
               api_keys[api_key_usage_history[i].key_id].exists
        /\ \A k \in Keys : api_key_usage[k].exists => api_keys[k].exists)
  /\ [][\A k \in Keys :
          (Ran("delete") /\ last'.key = k) =>
             IF last'.ok
             THEN /\ ~api_keys'[k].exists
                  /\ ~api_key_usage'[k].exists
                  /\ api_key_usage_history' =
                       SelectSeq(api_key_usage_history, LAMBDA row : row.key_id # k)
                  /\ \A j \in Keys \ {k} :
                       api_keys'[j] = api_keys[j] /\ api_key_usage'[j] = api_key_usage[j]
             ELSE /\ api_keys' = api_keys
                  /\ api_key_usage' = api_key_usage
                  /\ api_key_usage_history' = api_key_usage_history]_vars

\* a key with an aggregate row and a usage record was deleted, while a record
\* of the other key stays
C29_Witness ==
  /\ last.op = "delete" /\ last.ok /\ last.arg = 1
  /\ ~api_keys[last.key].exists
  /\ ~api_key_usage[last.key].exists
  /\ Len(api_key_usage_history) = 1
  /\ api_key_usage_history[1].key_id # last.key

\* C30: initializeKeyUsage for a credential that already has an aggregate row
\* fails and leaves every row of the aggregate table, its counters included,
\* as it was; the counters are never set back to zero.
C30_DoubleInitializeFails ==
  [][\A k \in Keys :
       (Ran("initialize") /\ last'.key = k /\ api_key_usage[k].exists)
         => /\ ~last'.ok
            /\ api_key_usage' = api_key_usage]_vars

\* the statement reached the store for a key whose aggregate counts two
\* requests, failed, and the two requests are still counted
C30_Witness ==
  /\ last.op = "initialize" /\ last.arg = 1 /\ ~last.ok
  /\ api_key_usage[last.key].exists
  /\ api_key_usage[last.key].request_count = 2
  /\ api_key_usage[last.key].input_tokens = reported[last.key].input_tokens
  /\ reported[last.key].input_tokens > 0

\* plan of the tenant that owns the key of evaluation r, as stored now
PlanNow(r) == users[Owner[EvalKey(r)]].plan_type

AllUsers == {"u1", "u2", "u3"}
Email == [u \in AllUsers |-> IF u = "u1" THEN "a@x.io" ELSE IF u = "u2" THEN "b@x.io" ELSE "c@x.io"]
\* /^[^\s@]+@[^\s@]+\.[^\s@]+$/ on the addresses passed
EmailChoices == {"b@x.io", "c@x.io", "not-an-email"}
IsEmail(email) == email \in {"a@x.io", "b@x.io", "c@x.io"}

\* the api_keys table after assignKey(keyId, ownerId, email); token is the
\* randomUUID() of the call, dbOk = FALSE a query that throws
assignKey(keys, keyId, ownerId, email, token, dbOk) ==
  IF ~IsEmail(email) THEN [success |-> FALSE, tbl |-> keys]
  ELSE IF ~dbOk THEN [success |-> FALSE, tbl |-> keys]
  ELSE IF ~(keys[keyId].exists /\ keys[keyId].user_id = ownerId)
  THEN [success |-> FALSE, tbl |-> keys]
  ELSE IF \E j \in Keys : /\ keys[j].exists /\ keys[j].user_id = ownerId
                          /\ keys[j].assigned_to_email = email /\ keys[j].is_active
  THEN [success |-> FALSE, tbl |-> keys]
  ELSE [success |-> TRUE,
        tbl |-> [keys EXCEPT ![keyId].assigned_to_email = email,
                             ![keyId].assignment_status = "pending",
                             ![keyId].invitation_token = token]]

\* the api_keys table after acceptInvitation(token, userId)
acceptInvitation(keys, token, userId, dbOk) ==
  LET found == {k \in Keys : /\ keys[k].exists /\ keys[k].invitation_token = token
                             /\ keys[k].assignment_status = "pending"
                             /\ keys[k].is_active}
  IN IF ~dbOk \/ found = {} THEN [success |-> FALSE, tbl |-> keys]
     ELSE LET k == CHOOSE j \in found : TRUE IN
          IF userId \notin AllUsers THEN [success |-> FALSE, tbl |-> keys]
          ELSE IF keys[k].assigned_to_email # Email[userId]
          THEN [success |-> FALSE, tbl |-> keys]
          ELSE [success |-> TRUE,
                tbl |-> [keys EXCEPT ![k].assigned_to_user_id = userId,
                                     ![k].assignment_status = "accepted"]]

\* GET /api/keys/:id/usage and /quota: the key row the caller is let through on
hasAccess(keys, keyId, userId) ==
  /\ keys[keyId].exists
  /\ keys[keyId].user_id = userId \/ keys[keyId].assigned_to_user_id = userId
  /\ keys[keyId].is_active

\* credits of k1 recorded in its window before the runs start
AssignSeeds == {0, 9999, 10000}

\* GET /api/keys/:id/quota: isOverLimit = Math.round(credits / limit * 100) >= 100;
\* limit 0 gives NaN (never >=) or Infinity
StatusOverLimit(credits, limit) ==
  IF limit = 0 THEN credits > 0 ELSE roundedCreditPercentage(credits, limit) >= 100

\* the answer of GET /api/keys/:id/usage and GET /api/keys/:id/quota to userId
ReadKey(keys, usersTbl, hist, route, keyId, userId, t) ==
  IF ~hasAccess(keys, keyId, userId)
  THEN [status |-> 404, isOverLimit |-> FALSE]
  ELSE IF route = "usage" THEN [status |-> 200, isOverLimit |-> FALSE]
  ELSE LET planType == getPlanType(usersTbl, keys[keyId].user_id)
           planLimits == PLAN_LIMITS[planType]
           quotaPercentage ==
             IF keys[keyId].quota_percentage = NULL THEN DefaultQuotaPercentage
             ELSE keys[keyId].quota_percentage
           effectiveCreditsLimit ==
             calculateEffectiveLimit(planLimits.creditsPerWindow, quotaPercentage)
           usage == getRollingWindowUsage(hist, keyId, planLimits.windowHours, t)
       IN [status |-> 200,
           isOverLimit |-> StatusOverLimit(usage.currentCredits, effectiveCreditsLimit)]

AssignInit ==
  /\ users = [u \in AllUsers |-> [plan_type |-> "free"]]
  /\ api_keys = [k \in Keys |->
                   [exists |-> TRUE, user_id |-> Owner[k], is_active |-> TRUE,
                    quota_percentage |-> DefaultQuotaPercentage,
                    assigned_to_email |-> "", assigned_to_user_id |-> "",
                    assignment_status |-> "unassigned", invitation_token |-> NULL]]
  /\ \E seed \in AssignSeeds :
       api_key_usage_history =
         IF seed = 0 THEN <<>> ELSE <<HistoryRow("k1", 0, M_Sonnet, seed)>>
  /\ oauth_tokens = [u \in Users |-> NoTokenRow]
  /\ api_key_usage = [k \in Keys |-> ZeroUsage]
  /\ now = 0
  /\ issued = 0
  /\ rq = NoEvaluations
  /\ charged = [k \in Keys |-> 0]
  /\ peak = [k \in Keys |-> 0]
  /\ reported = [k \in Keys |-> NoCalls]
  /\ last = NoOperation

\* POST /api/keys/:id/assign
AAssign(k) ==
  /\ last.n < MaxAssignOps
  /\ \E ownerId \in {"u1", "u2"}, email \in EmailChoices, dbOk \in BOOLEAN :
       LET res == assignKey(api_keys, k, ownerId, email, last.n + 1, dbOk) IN
       /\ api_keys' = res.tbl
       /\ last' = Operation("assign", k, res.success, 0, 0)
  /\ UNCHANGED <<users, oauth_tokens, api_key_usage, api_key_usage_history, now,
                 issued, rq, charged, peak, reported>>

\* POST /api/keys/accept-invitation/:token
AAccept ==
  /\ last.n < MaxAssignOps
  /\ \E token \in 1..MaxAssignOps, userId \in {"u2", "u3", "u9"}, dbOk \in BOOLEAN :
       LET res == acceptInvitation(api_keys, token, userId, dbOk) IN
       /\ api_keys' = res.tbl
       /\ last' = Operation("accept", userId, res.success, token, 0)
  /\ UNCHANGED <<users, oauth_tokens, api_key_usage, api_key_usage_history, now,
                 issued, rq, charged, peak, reported>>

\* what disconnectOAuth(userId) hands back: the function is declared
\* Promise<void>, so the caller holds undefined whatever the DELETE removed
disconnectReturn(tbl, userId) ==
  [defined |-> FALSE, success |-> FALSE, rowsDeleted |-> 0]

\* status of DELETE /api/claude/disconnect: reading result.success of
\* undefined throws a TypeError, which the framework answers with 500
DisconnectStatus(result) ==
  IF ~result.defined THEN 500 ELSE IF ~result.success THEN 404 ELSE 200

\* POST /api/claude/callback, the exchange succeeded
AConnect(u) ==
  /\ last.n < MaxAssignOps
  /\ oauth_tokens' = saveOAuthTokens(oauth_tokens, u,
                       [access_token |-> 1, refresh_token |-> 1,
                        expires_at |-> now + ExpiresInMs])
  /\ last' = Operation("connect", u, TRUE, 200, 0)
  /\ UNCHANGED <<users, api_keys, api_key_usage, api_key_usage_history, now,
                 issued, rq, charged, peak, reported>>

\* DELETE /api/claude/disconnect, with or without a stored credential
ADisconnect(u) ==
  /\ last.n < MaxAssignOps
  /\ LET result == disconnectReturn(oauth_tokens, u) IN
       /\ oauth_tokens' = disconnectOAuth(oauth_tokens, u)
       /\ last' = Operation("disconnect", u, result.success,
                            DisconnectStatus(result), result.rowsDeleted)
  /\ UNCHANGED <<users, api_keys, api_key_usage, api_key_usage_history, now,
                 issued, rq, charged, peak, reported>>

\* GET /api/keys/:id/usage and GET /api/keys/:id/quota by any user; the
\* answer is kept with the assignment columns the key had when it was read
ARead(r) ==
  /\ rq[r].pc = "idle"
  /\ \A q \in Requests : q < r => rq[q].pc # "idle"
  /\ Cardinality({q \in Requests : rq[q].pc = "read"}) < MaxReads
  /\ \E route \in {"usage", "quota"}, k \in Keys, userId \in AllUsers :
       LET res == ReadKey(api_keys, users, api_key_usage_history, route, k, userId, now)
       IN rq' = [rq EXCEPT ![r] =
                   [pc |-> "read", route |-> route, keyId |-> k, userId |-> userId,
                    status |-> res.status, isOverLimit |-> res.isOverLimit,
                    assignment_status |-> api_keys[k].assignment_status,
                    assigned_to_email |-> api_keys[k].assigned_to_email]]
  /\ UNCHANGED <<users, api_keys, oauth_tokens, api_key_usage,
                 api_key_usage_history, now, issued, charged, peak, reported, last>>

AssignNext ==
  \/ \E r \in Requests : ARead(r)
  \/ \E k \in Keys : AAssign(k)
  \/ AAccept
  \/ \E k \in Keys : Revoke(k)
  \/ \E u \in Users : AConnect(u)
  \/ \E u \in Users : ADisconnect(u)

AssignSpec == AssignInit /\ [][AssignNext]_vars

\* C32: the assignment status of a credential changes only from unassigned to
\* pending and from pending to accepted; an accepted credential never goes
\* back to pending and no state is skipped.
C32_AssignmentOnlyMovesForward ==
  [][\A k \in Keys :
       \/ api_keys'[k].assignment_status = api_keys[k].assignment_status
       \/ /\ api_keys[k].assignment_status = "unassigned"
          /\ api_keys'[k].assignment_status = "pending"
       \/ /\ api_keys[k].assignment_status = "pending"
          /\ api_keys'[k].assignment_status = "accepted"]_vars

\* C33: a disconnect reports success with one row deleted exactly when the
\* tenant had a stored upstream credential, and failure with no row deleted
\* otherwise; of repeated disconnects only the first after a connect is
\* answered 200, the others 404.
C33_DisconnectReportsDeletion ==
  [][\A u \in Users :
       (last'.op = "disconnect" /\ last'.key = u /\ last'.n # last.n) =>
         /\ last'.ok = oauth_tokens[u].exists
         /\ last'.rowCount = (IF oauth_tokens[u].exists THEN 1 ELSE 0)
         /\ last'.arg = (IF oauth_tokens[u].exists THEN 200 ELSE 404)]_vars

\* ------------------------------------------------------ the /v1 routes
\* app.post("/v1/messages") is registered before app.all("/v1/*")
MethodChoices == {"GET", "POST"}
PathChoices == {"/v1/messages", "/v1/messages/count_tokens", "/v1/models"}
Route(method, path) ==
  IF method = "POST" /\ path = "/v1/messages"
  THEN "proxyToClaudeAPI" ELSE "proxyToClaudeAPIGeneric"

\* upstream answers: JSON with usage totals, an event stream, a JSON error
UpstreamChoices ==
  {[ok |-> TRUE, status |-> 200, hasUsage |-> TRUE, usage |-> u, streaming |-> FALSE] :
     u \in UsageChoices}
  \cup {[ok |-> TRUE, status |-> 200, hasUsage |-> FALSE, usage |-> NoTokens,
         streaming |-> TRUE],
        [ok |-> FALSE, status |-> 400, hasUsage |-> FALSE, usage |-> NoTokens,
         streaming |-> FALSE]}
NoUpstream ==
  [ok |-> FALSE, status |-> 0, hasUsage |-> FALSE, usage |-> NoTokens,
   streaming |-> FALSE]

\* credits of k1 recorded in its window before the requests arrive
RouteSeeds == {0, 10000}

IdleCall ==
  [pc |-> "idle", method |-> "", path |-> "", handler |-> "", keyId |-> "",
   userId |-> "", planType |-> "", checked |-> FALSE, allowed |-> FALSE,
   refreshed |-> FALSE, model |-> NoModel, claudeResponse |-> NoUpstream,
   fetched |-> FALSE, recorded |-> "none", status |-> 0]

\* the handler returns with the given status
Return(r, cur, status) ==
  rq' = [rq EXCEPT ![r] = [cur EXCEPT !.pc = "done", !.status = status]]

\* step 4 of the handler runs checkQuotaLimit
ChecksQuota(handler, path) ==
  handler = "proxyToClaudeAPI" \/ path = "/v1/messages"

RouteInit ==
  /\ users = [u \in Users |-> [plan_type |-> "free"]]
  /\ api_keys = [k \in Keys |->
                   [exists |-> TRUE, user_id |-> Owner[k], is_active |-> TRUE,
                    quota_percentage |-> DefaultQuotaPercentage,
                    assigned_to_email |-> "", assigned_to_user_id |-> "",
                    assignment_status |-> "unassigned", invitation_token |-> NULL]]
  /\ now = HourMs
  /\ \E seed \in RouteSeeds :
       api_key_usage_history =
         IF seed = 0 THEN <<>> ELSE <<HistoryRow("k1", HourMs, M_Sonnet, seed)>>
  /\ \E expires_at \in {0, 2 * HourMs} :
       oauth_tokens = [u \in Users |->
                         [exists |-> TRUE, access_token |-> 0, refresh_token |-> 0,
                          expires_at |-> expires_at]]
  /\ api_key_usage = [k \in Keys |-> ZeroUsage]
  /\ issued = 0
  /\ rq = [r \in Requests |-> IdleCall]
  /\ charged = [k \in Keys |-> 0]
  /\ peak = [k \in Keys |-> 0]
  /\ reported = [k \in Keys |-> NoCalls]
  /\ last = NoOperation

\* routing, then steps 1-2: authorization header, validateApiKey
GReceive(r) ==
  /\ rq[r].pc = "idle"
  /\ \A q \in Requests : q < r => rq[q].pc # "idle"
  /\ \E method \in MethodChoices, path \in PathChoices,
        header \in HeaderChoices, dbOk \in BOOLEAN :
       LET keyValidation == validateApiKey(api_keys, header, dbOk)
           cur == [rq[r] EXCEPT !.method = method, !.path = path,
                                !.handler = Route(method, path)]
       IN IF header = "none" \/ ~keyValidation.valid
          THEN Return(r, cur, 401)
          ELSE rq' = [rq EXCEPT ![r] = [cur EXCEPT !.pc = "connection",
                                                  !.keyId = keyValidation.keyId,
                                                  !.userId = keyValidation.userId]]
  /\ UNCHANGED <<users, api_keys, oauth_tokens, api_key_usage,
                 api_key_usage_history, now, issued, charged, peak, reported, last>>

\* step 3: hasOAuthConnection(owner)
GCheckConnection(r) ==
  /\ rq[r].pc = "connection"
  /\ \E dbOk \in BOOLEAN :
       IF ~hasOAuthConnection(oauth_tokens, rq[r].userId, dbOk)
       THEN Return(r, rq[r], 401)
       ELSE rq' = [rq EXCEPT ![r] = [@ EXCEPT !.pc = "quota"]]
  /\ UNCHANGED <<users, api_keys, oauth_tokens, api_key_usage,
                 api_key_usage_history, now, issued, charged, peak, reported, last>>

\* variant: the verdict is noted and the handler goes on to step 5
GCheckQuota_goesOn(r) ==
  /\ rq[r].pc = "quota"
  /\ LET planType == getPlanType(users, rq[r].userId)
         quotaCheck == checkQuotaLimit(api_keys, api_key_usage_history,
                                       rq[r].keyId, planType, now)
     IN rq' = [rq EXCEPT ![r] = [@ EXCEPT !.pc = "token", !.planType = planType,
                                         !.checked = ChecksQuota(rq[r].handler, rq[r].path),
                                         !.allowed = ChecksQuota(rq[r].handler, rq[r].path)
                                                       /\ quotaCheck.allowed]]
  /\ UNCHANGED <<users, api_keys, oauth_tokens, api_key_usage,
                 api_key_usage_history, now, issued, charged, peak, reported, last>>

\* step 4: plan of the owner; checkQuotaLimit in proxyToClaudeAPI, and in
\* proxyToClaudeAPIGeneric when path === '/v1/messages'
GCheckQuota(r) ==
  /\ rq[r].pc = "quota"
  /\ LET planType == getPlanType(users, rq[r].userId)
         quotaCheck == checkQuotaLimit(api_keys, api_key_usage_history,
                                       rq[r].keyId, planType, now)
         cur == [rq[r] EXCEPT !.planType = planType]
     IN IF ChecksQuota(rq[r].handler, rq[r].path)
        THEN IF ~quotaCheck.allowed
             THEN Return(r, [cur EXCEPT !.checked = TRUE], 429)
             ELSE rq' = [rq EXCEPT ![r] = [cur EXCEPT !.pc = "token", !.checked = TRUE,
                                                     !.allowed = TRUE]]
        ELSE rq' = [rq EXCEPT ![r] = [cur EXCEPT !.pc = "token"]]
  /\ UNCHANGED <<users, api_keys, oauth_tokens, api_key_usage,
                 api_key_usage_history, now, issued, charged, peak, reported, last>>

\* step 5: ensureValidToken(owner): no row, a valid token, or an expired one
\* that is refreshed and saved
GEnsureToken(r) ==
  /\ rq[r].pc = "token"
  /\ \E dbOk \in BOOLEAN :
       LET oauthTokens == getOAuthTokens(oauth_tokens, rq[r].userId, dbOk) IN
       IF oauthTokens.kind # "row"
       THEN Return(r, rq[r], 401) /\ UNCHANGED <<oauth_tokens, issued>>
       ELSE IF oauthTokens.row.expires_at < now
       THEN \/ /\ Return(r, [rq[r] EXCEPT !.refreshed = TRUE], 401)
               /\ UNCHANGED <<oauth_tokens, issued>>
            \/ /\ issued < MaxIssued
               /\ issued' = issued + 1
               /\ oauth_tokens' = saveOAuthTokens(oauth_tokens, rq[r].userId,
                                    [access_token |-> issued + 1,
                                     refresh_token |-> issued + 1,
                                     expires_at |-> now + ExpiresInMs])
               /\ rq' = [rq EXCEPT ![r] = [@ EXCEPT !.pc = "body", !.refreshed = TRUE]]
       ELSE /\ rq' = [rq EXCEPT ![r] = [@ EXCEPT !.pc = "body"]]
            /\ UNCHANGED <<oauth_tokens, issued>>
  /\ UNCHANGED <<users, api_keys, api_key_usage, api_key_usage_history, now,
                 charged, peak, reported, last>>

\* step 6: proxyToClaudeAPI wants a JSON object; proxyToClaudeAPIGeneric reads
\* no body on GET and refuses only JSON that does not parse
GBody(r) ==
  /\ rq[r].pc = "body"
  /\ \E body \in BodyChoices :
       LET refused ==
             IF rq[r].handler = "proxyToClaudeAPI" THEN body.kind # "json"
             ELSE rq[r].method # "GET" /\ body.kind = "badJson"
           model == IF rq[r].method = "GET" THEN NoModel ELSE body.model
       IN IF refused THEN Return(r, rq[r], 400)
          ELSE rq' = [rq EXCEPT ![r] = [@ EXCEPT !.pc = "fetch", !.model = model]]
  /\ UNCHANGED <<users, api_keys, oauth_tokens, api_key_usage,
                 api_key_usage_history, now, issued, charged, peak, reported, last>>

\* the upstream call. proxyToClaudeAPIGeneric pipes an event stream through
\* and returns; proxyToClaudeAPI calls json() on it, which throws (500)
GFetch(r) ==
  /\ rq[r].pc = "fetch"
  /\ \/ \E resp \in UpstreamChoices :
          LET cur == [rq[r] EXCEPT !.fetched = TRUE, !.claudeResponse = resp] IN
          IF resp.streaming
          THEN Return(r, cur, IF rq[r].handler = "proxyToClaudeAPI"
                              THEN 500 ELSE resp.status)
          ELSE rq' = [rq EXCEPT ![r] = [cur EXCEPT !.pc = "track"]]
     \/ Return(r, [rq[r] EXCEPT !.fetched = TRUE], 500)
  /\ UNCHANGED <<users, api_keys, oauth_tokens, api_key_usage,
                 api_key_usage_history, now, issued, charged, peak, reported, last>>

\* usage tracking of a JSON answer (messages only; a failure is only logged),
\* then the upstream's status
GTrack(r) ==
  /\ rq[r].pc = "track"
  /\ LET resp == rq[r].claudeResponse
         usage == UsageUpdate(ModelOf(rq[r].model), resp.usage)
     IN IF ChecksQuota(rq[r].handler, rq[r].path) /\ resp.ok /\ resp.hasUsage
        THEN \E dbOk \in BOOLEAN :
               /\ api_key_usage' =
                    updateKeyUsage(api_key_usage, rq[r].keyId, usage, now, dbOk)
               /\ api_key_usage_history' =
                    updateKeyUsageHistory(api_key_usage_history, rq[r].keyId,
                                          usage, now, dbOk)
               /\ charged' = [charged EXCEPT ![rq[r].keyId] =
                                IF dbOk THEN @ + CreditsOf(usage) ELSE @]
               /\ reported' = Report(reported, api_key_usage, rq[r].keyId, usage, dbOk)
               /\ Return(r, [rq[r] EXCEPT !.recorded = IF dbOk THEN "ok" ELSE "failed"],
                         resp.status)
        ELSE /\ Return(r, rq[r], resp.status)
             /\ UNCHANGED <<api_key_usage, api_key_usage_history, charged, reported>>
  /\ UNCHANGED <<users, api_keys, oauth_tokens, now, issued, peak, last>>

RouteNext ==
  \/ \E r \in Requests : GReceive(r)
  \/ \E r \in Requests : GCheckConnection(r)
  \/ \E r \in Requests : GCheckQuota(r)
  \/ \E r \in Requests : GEnsureToken(r)
  \/ \E r \in Requests : GBody(r)
  \/ \E r \in Requests : GFetch(r)
  \/ \E r \in Requests : GTrack(r)

RouteSpec == RouteInit /\ [][RouteNext]_vars

\* C34: every request forwarded to the upstream has first passed the quota
\* decision of its credential; no proxied route reaches the upstream unchecked.
C34_ForwardedWasChecked ==
  \A r \in Requests : rq[r].fetched => rq[r].checked /\ rq[r].allowed

\* C35: every admitted messages request that the upstream served successfully
\* has been charged to the ledger once its handler has returned, also when the
\* answer was streamed.
C35_ServedIsCharged ==
  \A r \in Requests :
    ( /\ rq[r].pc = "done" /\ rq[r].path = "/v1/messages"
      /\ rq[r].checked /\ rq[r].allowed /\ rq[r].fetched
      /\ rq[r].claudeResponse.ok
      /\ rq[r].claudeResponse.hasUsage \/ rq[r].claudeResponse.streaming )
    => rq[r].recorded = "ok"

\* C36: a request denied by the quota decision has returned 429 without being
\* forwarded to the upstream, without a token refresh and without a ledger
\* write.
C36_DeniedStopsAtStep4 ==
  \A r \in Requests :
    (rq[r].checked /\ ~rq[r].allowed) =>
      /\ rq[r].pc = "done" /\ rq[r].status = 429
      /\ ~rq[r].fetched /\ ~rq[r].refreshed /\ rq[r].recorded = "none"

\* a denied request of an owner whose stored token has expired
C36_Witness ==
  \E r \in Requests :
    /\ rq[r].checked /\ ~rq[r].allowed /\ rq[r].pc = "done"
    /\ oauth_tokens[rq[r].userId].expires_at < now

\* answers of the usage and quota routes
Reads == {r \in Requests : rq[r].pc = "read"}

\* C37: for the same credential and ledger state the quota route reports
\* isOverLimit = true exactly when the quota decision of the pipeline denies.
C37_StatusAgreesWithGate ==
  \A r \in Reads :
    (rq[r].route = "quota" /\ rq[r].status = 200) =>
      (rq[r].isOverLimit <=>
         ~checkQuotaLimit(api_keys, api_key_usage_history, rq[r].keyId,
                          getPlanType(users, api_keys[rq[r].keyId].user_id),
                          now).allowed)

\* C39: a user other than the owner is answered by the usage and quota routes
\* only while the credential's assignment is accepted for that user; while the
\* status is unassigned or pending no assigned user is set, so a re-assignment
\* ends the previous assignee's access.
C39_OnlyAcceptedAssigneeReads ==
  /\ \A r \in Reads :
       (rq[r].status = 200 /\ rq[r].userId # Owner[rq[r].keyId]) =>
         /\ rq[r].assignment_status = "accepted"
         /\ rq[r].assigned_to_email = Email[rq[r].userId]
  /\ \A k \in Keys :
       api_keys[k].assignment_status \in {"unassigned", "pending"} =>
         api_keys[k].assigned_to_user_id = ""

\* C38: every credential that exists has its Usage Aggregate row, from its
\* creation until its deletion, so that a record call finds the row to
\* increment.
C38_ExistingKeyHasAggregate ==
  \A k \in Keys : api_keys[k].exists => api_key_usage[k].exists

\* the quota decisions of every credential under every plan are the same
\* before and after the step
DecisionsUnchanged ==
  \A k \in Keys, p \in {"free", "pro"} :
    api_keys[k].exists =>
      checkQuotaLimit(api_keys', api_key_usage_history', k, p, now)
        = checkQuotaLimit(api_keys, api_key_usage_history, k, p, now)

\* C40 as stated: a run of the retention job, whatever its horizon, changes
\* no credential's windowed usage and no admission decision.
C40_RetentionKeepsWindows ==
  [][Ran("cleanup") => DecisionsUnchanged]_vars

\* C40: a run of the retention job with a horizon of at least one day, the
\* longest plan window, changes no credential's windowed usage and no
\* admission decision.
C40_RetentionOfADayKeepsWindows ==
  [][(Ran("cleanup") /\ last'.arg >= 1) => DecisionsUnchanged]_vars

\* a run with a horizon of a day or more has deleted a record while k1 still
\* has usage in the window of the free plan
C40_Witness ==
  /\ last.op = "cleanup" /\ last.arg >= 1 /\ last.rowCount >= 1
  /\ getRollingWindowUsage(api_key_usage_history, "k1",
                           PLAN_LIMITS["free"].windowHours, now).currentCredits > 0

====
